---- MODULE Spec2Model ----
(***************************************************************************)
(* A model of the scripted bank store (src/clix): identifier encoding,     *)
(* the bank text format, the reference resolver and the plugin kernel.     *)
(*                                                                         *)
(* Text is modelled by TLA+ strings; a character is a string of length 1.  *)
(* A long long is modelled exactly, as a 64-bit two's complement number    *)
(* held in four 16-bit limbs, least significant limb first.                *)
(***************************************************************************)
EXTENDS Integers, Sequences, FiniteSets, TLC

VARIABLES
    config,     \* the Config in use (Editor::cfg)
    workspace,  \* the Workspace: banks and filenames (Editor::ws)
    filesys,    \* the file system: absolute path -> what is there
    kernel,     \* the Kernel: its plugin list, and the child processes started
    last,       \* the last call made: its arguments, the state before it, its result
    editor,     \* the Editor: its current context and its dirty flag
    num,        \* the identifier round trip: value, base, width, text, parse result
    fmt         \* the bank round trip: bank, config, text, parse result

vars == <<config, workspace, filesys, kernel, last, editor, num, fmt>>

(***************************************************************************)
(* Bounds of the model.                                                    *)
(***************************************************************************)
\* largest pad width tried by the identifier round trip
MaxWidth == 3

(***************************************************************************)
(* Text helpers.                                                           *)
(***************************************************************************)
\* s[i-1], and "" outside the text
CharAt(s, i) == IF i >= 1 /\ i <= Len(s) THEN SubSeq(s, i, i) ELSE ""

Max(a, b) == IF a >= b THEN a ELSE b

RECURSIVE Repeat(_, _)
\* std::string(n, c)
Repeat(c, n) == IF n <= 0 THEN "" ELSE c \o Repeat(c, n - 1)

\* position (1-based) of the first occurrence of character c in s at or
\* after position from, 0 when there is none: std::string::find(c, from-1)
FindChar(s, c, from) ==
    IF \E i \in from..Len(s) : CharAt(s, i) = c
    THEN CHOOSE i \in from..Len(s) :
            /\ CharAt(s, i) = c
            /\ \A j \in from..(i - 1) : CharAt(s, j) # c
    ELSE 0

DecDigits == "0123456789"
UpperCase == "ABCDEFGHIJKLMNOPQRSTUVWXYZ"
LowerCase == "abcdefghijklmnopqrstuvwxyz"

(***************************************************************************)
(* long long arithmetic (64-bit, two's complement, wrapping).              *)
(***************************************************************************)
LimbBase == 2^16

\* the long long of a small natural number n
LL(n) == <<n % LimbBase, (n \div LimbBase) % LimbBase, 0, 0>>

LLIsZero(v) == v = <<0, 0, 0, 0>>
\* v < 0
LLIsNeg(v) == v[4] >= LimbBase \div 2
\* v > 0
LLIsPos(v) == ~LLIsNeg(v) /\ ~LLIsZero(v)

\* v * m + d in 64 bits (the carry out of the top limb is dropped)
LLMulAdd(v, m, d) ==
    LET t1 == v[1] * m + d
        t2 == v[2] * m + (t1 \div LimbBase)
        t3 == v[3] * m + (t2 \div LimbBase)
        t4 == v[4] * m + (t3 \div LimbBase)
    IN  <<t1 % LimbBase, t2 % LimbBase, t3 % LimbBase, t4 % LimbBase>>

\* whether v * m + d leaves the range of a long long (for v >= 0)
LLMulAddOverflows(v, m, d) ==
    LET t1 == v[1] * m + d
        t2 == v[2] * m + (t1 \div LimbBase)
        t3 == v[3] * m + (t2 \div LimbBase)
        t4 == v[4] * m + (t3 \div LimbBase)
    IN  t4 >= LimbBase \div 2

\* v / m and v % m for v >= 0 and a small m > 0
LLDivMod(v, m) ==
    LET q4 == v[4] \div m
        c3 == (v[4] % m) * LimbBase + v[3]
        q3 == c3 \div m
        c2 == (c3 % m) * LimbBase + v[2]
        q2 == c2 \div m
        c1 == (c2 % m) * LimbBase + v[1]
        q1 == c1 \div m
    IN  [quot |-> <<q1, q2, q3, q4>>, rem |-> c1 % m]

\* -v in 64 bits
LLNeg(v) ==
    LET n1 == (LimbBase - 1 - v[1]) + 1
        n2 == (LimbBase - 1 - v[2]) + (n1 \div LimbBase)
        n3 == (LimbBase - 1 - v[3]) + (n2 \div LimbBase)
        n4 == (LimbBase - 1 - v[4]) + (n3 \div LimbBase)
    IN  <<n1 % LimbBase, n2 % LimbBase, n3 % LimbBase, n4 % LimbBase>>

\* a < b for two non-negative long longs (the order of a std::map's keys)
LLLess(a, b) ==
    \E i \in 1..4 : /\ a[i] < b[i]
                    /\ \A j \in (i + 1)..4 : a[j] = b[j]

(***************************************************************************)
(* Identifier encoding: scripted_core.hpp, digitValue / parseIntBase /     *)
(* toBaseN.                                                                *)
(***************************************************************************)
\* the characters of a text
Chars(s) == {SubSeq(s, i, i) : i \in 1..Len(s)}

\* digitValue on the characters it gives a value to
DigitTable ==
    [c \in Chars(DecDigits) \cup Chars(UpperCase) \cup Chars(LowerCase) |->
        IF FindChar(DecDigits, c, 1) > 0 THEN FindChar(DecDigits, c, 1) - 1
        ELSE IF FindChar(UpperCase, c, 1) > 0 THEN 10 + (FindChar(UpperCase, c, 1) - 1)
        ELSE 10 + (FindChar(LowerCase, c, 1) - 1)]

digitValue(c) == IF c \in DOMAIN DigitTable THEN DigitTable[c] ELSE -1

RECURSIVE parseIntLoop(_, _, _, _)
\* the loop of parseIntBase from character i on, with accumulator v
parseIntLoop(s, i, base, v) ==
    IF i > Len(s) THEN [ok |-> TRUE, out |-> v]
    ELSE LET d  == digitValue(CharAt(s, i))
             v2 == LLMulAdd(v, base, d)
         IN  IF d < 0 \/ d >= base THEN [ok |-> FALSE, out |-> LL(0)]
             ELSE IF LLIsNeg(v2) THEN [ok |-> FALSE, out |-> LL(0)]
             ELSE parseIntLoop(s, i + 1, base, v2)

parseIntBase(s, base) ==
    IF s = "" THEN [ok |-> FALSE, out |-> LL(0)]
    ELSE parseIntLoop(s, 1, base, LL(0))

RECURSIVE parseIntLoopUnchecked(_, _, _, _)
\* the same loop as a build may compile it once v*base + d has overflowed
\* (signed overflow is undefined): the test v < 0 is taken to be false
parseIntLoopUnchecked(s, i, base, v) ==
    IF i > Len(s) THEN [ok |-> TRUE, out |-> v]
    ELSE LET d  == digitValue(CharAt(s, i))
             v2 == LLMulAdd(v, base, d)
         IN  IF d < 0 \/ d >= base THEN [ok |-> FALSE, out |-> LL(0)]
             ELSE IF LLIsNeg(v2) THEN parseIntLoopUnchecked(s, i + 1, base, v2)
             ELSE parseIntLoopUnchecked(s, i + 1, base, v2)

RECURSIVE overflowsAt(_, _, _, _)
\* whether v*base + d leaves the range of a long long at some character
overflowsAt(s, i, base, v) ==
    IF i > Len(s) THEN FALSE
    ELSE LET d == digitValue(CharAt(s, i))
         IN  IF d < 0 \/ d >= base THEN FALSE
             ELSE IF LLMulAddOverflows(v, base, d) THEN TRUE
             ELSE overflowsAt(s, i + 1, base, LLMulAdd(v, base, d))

\* what a call parseIntBase(s, base, out) can give: the loop as written,
\* the arithmetic wrapping, and, when the arithmetic overflows, also the
\* loop with the test removed
parseIntOutcomes(s, base) ==
    {[how |-> "wrapping", res |-> parseIntBase(s, base)]} \cup
    (IF s # "" /\ overflowsAt(s, 1, base, LL(0))
     THEN {[how |-> "unchecked", res |-> parseIntLoopUnchecked(s, 1, base, LL(0))]}
     ELSE {})

\* the character toBaseN pushes for digit d
DigitChar(d) ==
    IF d < 10 THEN CharAt(DecDigits, d + 1) ELSE CharAt(LowerCase, d - 10 + 1)

RECURSIVE toBaseNDigitsUnreversed(_, _)
\* the digit loop with the std::reverse left out: least significant first
toBaseNDigitsUnreversed(val, base) ==
    IF ~LLIsPos(val) THEN ""
    ELSE LET dm == LLDivMod(val, base)
         IN  DigitChar(dm.rem) \o toBaseNDigitsUnreversed(dm.quot, base)

RECURSIVE toBaseNDigits(_, _)
\* the while (val>0) loop of toBaseN, after the std::reverse
toBaseNDigits(val, base) ==
    IF ~LLIsPos(val) THEN ""
    ELSE LET dm == LLDivMod(val, base)
         IN  toBaseNDigits(dm.quot, base) \o DigitChar(dm.rem)

toBaseN(val, base0, width) ==
    LET base == IF base0 < 2 \/ base0 > 36 THEN 10 ELSE base0
    IN  IF LLIsZero(val) THEN Repeat("0", Max(1, width))
        ELSE LET neg == LLIsNeg(val)
                 mag == IF neg THEN LLNeg(val) ELSE val
                 s   == (IF neg THEN "-" ELSE "") \o toBaseNDigits(mag, base)
             IN  IF width > 0 /\ Len(s) < width
                 THEN Repeat("0", width - Len(s)) \o s
                 ELSE s

(***************************************************************************)
(* More text helpers: scripted_core.hpp trim, and the std::string calls    *)
(* the parser makes.                                                       *)
(***************************************************************************)
\* std::isspace in the C locale (the model's texts hold no vertical tab)
isspace(c) == c \in {" ", "\t", "\n", "\r", "\f"}

RECURSIVE trimLeft(_)
trimLeft(s) ==
    IF s # "" /\ isspace(CharAt(s, 1)) THEN trimLeft(Tail(s)) ELSE s

RECURSIVE trimRight(_)
trimRight(s) ==
    IF s # "" /\ isspace(CharAt(s, Len(s)))
    THEN trimRight(SubSeq(s, 1, Len(s) - 1))
    ELSE s

trim(s) == trimRight(trimLeft(s))

\* s.find(c) != npos
Contains(s, c) == FindChar(s, c, 1) > 0

\* position (1-based) of the last occurrence of c in s, 0 when there is none
RFindChar(s, c) ==
    IF Contains(s, c)
    THEN CHOOSE i \in 1..Len(s) :
            /\ CharAt(s, i) = c
            /\ \A j \in (i + 1)..Len(s) : CharAt(s, j) # c
    ELSE 0

\* s.substr(from-1): the text from position from (1-based) to the end
Suffix(s, from) == SubSeq(s, from, Len(s))

RECURSIVE getlines(_)
\* the lines std::getline reads from the text, in order
getlines(text) ==
    IF text = "" THEN <<>>
    ELSE LET nl == FindChar(text, "\n", 1)
         IN  IF nl = 0 THEN <<text>>
             ELSE <<SubSeq(text, 1, nl - 1)>> \o getlines(Suffix(text, nl + 1))

(***************************************************************************)
(* Config, Bank, Workspace: scripted_core.hpp.                             *)
(* A std::map is a function on the set of its keys.                        *)
(***************************************************************************)
Config(prefix, base, widthBank, widthReg, widthAddr) ==
    [prefix |-> prefix, base |-> base, widthBank |-> widthBank,
     widthReg |-> widthReg, widthAddr |-> widthAddr]

\* the member initialisers of struct Config
DefaultConfig == Config("x", 10, 5, 2, 4)

EmptyMap == <<>>

\* m[k] = v on a std::map
MapPut(m, k, v) == [x \in DOMAIN m \cup {k} |-> IF x = k THEN v ELSE m[x]]

\* m.erase(k)
MapErase(m, k) == [x \in DOMAIN m \ {k} |-> m[x]]

\* a default-constructed Bank
EmptyBank == [id |-> LL(0), title |-> "", regs |-> EmptyMap]

\* the keys of a std::map in iteration order (ascending)
RECURSIVE SortedKeys(_)
SortedKeys(S) ==
    IF S = {} THEN <<>>
    ELSE LET least == CHOOSE k \in S : \A o \in S \ {k} : LLLess(k, o)
         IN  <<least>> \o SortedKeys(S \ {least})

\* the (register, address) -> value mapping a Bank holds
Cells(b) ==
    LET keys == {<<r, a>> : r \in DOMAIN b.regs, a \in UNION {DOMAIN b.regs[q] : q \in DOMAIN b.regs}}
        live == {k \in keys : k[2] \in DOMAIN b.regs[k[1]]}
    IN  [k \in live |-> b.regs[k[1]][k[2]]]

(***************************************************************************)
(* The bank text format: parseBankText and writeBankText.                  *)
(***************************************************************************)
ParseFail(msg, bank) == [ok |-> FALSE, err |-> msg, bank |-> bank]

RECURSIVE firstNonBlank(_, _)
\* while (i<lines.size() && trim(lines[i]).empty()) i++   (1-based)
firstNonBlank(lines, i) ==
    IF i <= Len(lines) /\ trim(lines[i]) = "" THEN firstNonBlank(lines, i + 1) ELSE i

RECURSIVE headerAccumLoop(_, _, _)
\* the header text gathered until it holds a '{'
headerAccumLoop(lines, j, accum) ==
    IF ~Contains(accum, "{") /\ j <= Len(lines)
    THEN headerAccumLoop(lines, j + 1, accum \o " " \o trim(lines[j]))
    ELSE accum

RECURSIVE bodyStart(_, _)
\* the first line at or after k that holds a '{' (Len+1 when none)
bodyStart(lines, k) ==
    IF k <= Len(lines) /\ ~Contains(lines[k], "{") THEN bodyStart(lines, k + 1) ELSE k

RECURSIVE stripIndent(_)
\* while (!t.empty() && (t[0]=='\t' || t[0]==' ')) t.erase(t.begin())
stripIndent(t) ==
    IF t # "" /\ CharAt(t, 1) \in {"\t", " "} THEN stripIndent(Tail(t)) ELSE t

RECURSIVE parseBody(_, _, _, _, _)

\* a register line: cur = reg, or the parse fails
regLine(lines, k, cfg, bank, text, reg) ==
    IF ~reg.ok THEN ParseFail("invalid register line: " \o text, bank)
    ELSE parseBody(lines, k + 1, cfg, reg.out, bank)

\* the addresses of register reg of the bank (outBank.regs[reg])
regOf(bank, reg) == IF reg \in DOMAIN bank.regs THEN bank.regs[reg] ELSE EmptyMap

\* a parser that keeps the value an address already has
addrPutKeepFirst(lines, k, cfg, currentReg, bank, addrTok, val, addr) ==
    IF ~addr.ok THEN ParseFail("invalid address id: " \o addrTok, bank)
    ELSE parseBody(lines, k + 1, cfg, currentReg,
            [bank EXCEPT !.regs =
                MapPut(bank.regs, currentReg,
                       IF addr.out \in DOMAIN regOf(bank, currentReg)
                       THEN regOf(bank, currentReg)
                       ELSE MapPut(regOf(bank, currentReg), addr.out, val))])

\* outBank.regs[currentReg][addr] = val, or the parse fails
addrPut(lines, k, cfg, currentReg, bank, addrTok, val, addr) ==
    IF ~addr.ok THEN ParseFail("invalid address id: " \o addrTok, bank)
    ELSE parseBody(lines, k + 1, cfg, currentReg,
            [bank EXCEPT !.regs =
                MapPut(bank.regs, currentReg,
                       MapPut(regOf(bank, currentReg), addr.out, val))])

\* the position of the first tab of t, else of its first space (0: neither)
sepOf(tab, space) == IF tab = 0 THEN space ELSE tab

\* an address line t (its indentation stripped) split at sep
addrSplit(lines, k, cfg, currentReg, bank, t, sep) ==
    addrPut(lines, k, cfg, currentReg, bank,
            IF sep = 0 THEN trim(t) ELSE trim(SubSeq(t, 1, sep - 1)),
            IF sep = 0 THEN "" ELSE Suffix(t, sep + 1),
            parseIntBase(IF sep = 0 THEN trim(t) ELSE trim(SubSeq(t, 1, sep - 1)),
                         cfg.base))

addrLine(lines, k, cfg, currentReg, bank, t) ==
    addrSplit(lines, k, cfg, currentReg, bank, t,
              sepOf(FindChar(t, "\t", 1), FindChar(t, " ", 1)))

\* one line s of the body
bodyLine(lines, k, cfg, currentReg, bank, s) ==
    IF Contains(s, "}") THEN [ok |-> TRUE, err |-> "", bank |-> bank]
    ELSE IF trim(s) = "" THEN parseBody(lines, k + 1, cfg, currentReg, bank)
    ELSE IF s # "" /\ CharAt(s, 1) # "\t" /\ CharAt(s, 1) # " "
    THEN regLine(lines, k, cfg, bank, trim(s), parseIntBase(trim(s), cfg.base))
    ELSE addrLine(lines, k, cfg, currentReg, bank, stripIndent(s))

\* the body loop of parseBankText from line k on
parseBody(lines, k, cfg, currentReg, bank) ==
    IF k > Len(lines) THEN [ok |-> TRUE, err |-> "", bank |-> bank]
    ELSE bodyLine(lines, k, cfg, currentReg, bank, lines[k])

\* outBank = Bank{}; outBank.id = id; outBank.title = title
FreshBank(id, title) == [id |-> id, title |-> title, regs |-> EmptyMap]

\* the end of the header: the bank id is tested, then the body is looked for
parseStart(lines, cfg, outBank, bankId, title, start) ==
    IF ~bankId.ok THEN ParseFail("cannot parse bank id", outBank)
    ELSE IF start > Len(lines)
    THEN ParseFail("missing body start", FreshBank(bankId.out, title))
    ELSE parseBody(lines, start + 1, cfg, LL(1), FreshBank(bankId.out, title))

\* left0 is the header text before '(' and title the text between the
\* parentheses; a leading prefix character is dropped from left0
parseId(lines, i, cfg, outBank, left0, title) ==
    parseStart(lines, cfg, outBank,
               parseIntBase(IF left0 # "" /\ CharAt(left0, 1) = cfg.prefix
                            THEN Tail(left0) ELSE left0, cfg.base),
               title, bodyStart(lines, i))

\* lp and rp are the positions of the first '(' and the last ')'
parseParens(lines, i, cfg, outBank, headerAccum, lp, rp) ==
    IF lp = 0 \/ rp = 0 \/ rp < lp
    THEN ParseFail("malformed header: parentheses", outBank)
    ELSE parseId(lines, i, cfg, outBank, trim(SubSeq(headerAccum, 1, lp - 1)),
                 trim(SubSeq(headerAccum, lp + 1, rp - 1)))

parseHeader(lines, i, cfg, outBank, headerAccum) ==
    IF ~Contains(headerAccum, "{") THEN ParseFail("missing '{' after header", outBank)
    ELSE parseParens(lines, i, cfg, outBank, headerAccum,
                     FindChar(headerAccum, "(", 1), RFindChar(headerAccum, ")"))

\* i is the first line that is not blank
parseFrom(lines, i, cfg, outBank) ==
    IF i > Len(lines) THEN ParseFail("no header found", outBank)
    ELSE parseHeader(lines, i, cfg, outBank,
                     headerAccumLoop(lines, i + 1, trim(lines[i])))

parseLines(lines, cfg, outBank) ==
    IF Len(lines) = 0 THEN ParseFail("empty file", outBank)
    ELSE parseFrom(lines, firstNonBlank(lines, 1), cfg, outBank)

\* parseBankText(text, cfg, outBank) with outBank as it was passed in:
\* the result holds the ParseResult and outBank as the call leaves it.
\* (The texts of the model are ASCII: none starts with a byte-order mark.)
parseBankText(text, cfg, outBank) == parseLines(getlines(text), cfg, outBank)

RECURSIVE writeAddrs(_, _, _)
\* one "\t<addr>\t<value>\n" line per address of a register, ascending
writeAddrs(addrs, keys, cfg) ==
    IF keys = <<>> THEN ""
    ELSE "\t" \o toBaseN(Head(keys), cfg.base, cfg.widthAddr) \o "\t"
              \o addrs[Head(keys)] \o "\n"
              \o writeAddrs(addrs, Tail(keys), cfg)

RECURSIVE writeRegs(_, _, _)
\* a marker line and the address lines of every register, ascending
writeRegs(regs, keys, cfg) ==
    IF keys = <<>> THEN ""
    ELSE toBaseN(Head(keys), cfg.base, cfg.widthReg) \o "\n"
              \o writeAddrs(regs[Head(keys)], SortedKeys(DOMAIN regs[Head(keys)]), cfg)
              \o writeRegs(regs, Tail(keys), cfg)

writeBankText(b, cfg) ==
    LET bankStr == cfg.prefix \o toBaseN(b.id, cfg.base, cfg.widthBank)
        multi   == \/ Cardinality(DOMAIN b.regs) > 1
                   \/ (Cardinality(DOMAIN b.regs) = 1 /\ LL(1) \notin DOMAIN b.regs)
    IN  bankStr \o "\t(" \o b.title \o "){\n"
        \o (IF ~multi
            THEN IF LL(1) \in DOMAIN b.regs
                 THEN writeAddrs(b.regs[LL(1)], SortedKeys(DOMAIN b.regs[LL(1)]), cfg)
                 ELSE ""
            ELSE writeRegs(b.regs, SortedKeys(DOMAIN b.regs), cfg))
        \o "}\n"

(***************************************************************************)
(* Files.  The file system is a function from the paths that exist to the  *)
(* file there: its text, and whether a std::ifstream can open it.          *)
(***************************************************************************)
File(text) == [kind |-> "file", text |-> text, readable |-> TRUE]

\* a file that exists and that a std::ifstream cannot open
Unreadable == [kind |-> "file", text |-> "", readable |-> FALSE]

Directory == [kind |-> "dir", text |-> "", readable |-> FALSE]

\* the working directory of the process
Cwd == "/w"

\* fs::absolute
absolute(p) == IF CharAt(p, 1) = "/" THEN p ELSE Cwd \o "/" \o p

\* fs::exists
exists(disk, p) == absolute(p) \in DOMAIN disk

\* whether a std::ifstream on p opens
canOpen(disk, p) ==
    /\ exists(disk, p)
    /\ disk[absolute(p)].kind = "file"
    /\ disk[absolute(p)].readable

\* everything read from an open std::ifstream on p
readAll(disk, p) == disk[absolute(p)].text

contextFileName(cfg, bankId) ==
    "files/" \o cfg.prefix \o toBaseN(bankId, cfg.base, cfg.widthBank) \o ".txt"

\* loadContextFile(cfg, file, bank, err) with bank as it was passed in
loadContextFile(cfg, file, bank, disk) ==
    IF ~exists(disk, file) THEN ParseFail("file not found: " \o file, bank)
    ELSE IF ~canOpen(disk, file) THEN ParseFail("cannot open: " \o file, bank)
    ELSE parseBankText(readAll(disk, file), cfg, bank)

\* a loader that keeps what was parsed before the error
storeLoadedAlways(ws, bankId, file, ld) ==
    [ok |-> ld.ok,
     ws |-> [banks |-> MapPut(ws.banks, bankId, ld.bank),
             filenames |-> MapPut(ws.filenames, bankId, file)]]

\* the end of ensureBankLoadedInWorkspace: ld is what loadContextFile gave
storeLoaded(ws, bankId, file, ld) ==
    IF ~ld.ok THEN [ok |-> FALSE, ws |-> ws]
    ELSE [ok |-> TRUE,
          ws |-> [banks |-> MapPut(ws.banks, bankId, ld.bank),
                  filenames |-> MapPut(ws.filenames, bankId, file)]]

\* ensureBankLoadedInWorkspace once the bank is known not to be loaded
loadFrom(cfg, ws, bankId, file, disk) ==
    IF ~exists(disk, file) THEN [ok |-> FALSE, ws |-> ws]
    ELSE storeLoaded(ws, bankId, file, loadContextFile(cfg, file, EmptyBank, disk))

\* a loader without the test for a bank that is already loaded
ensureBankReloaded(cfg, ws, bankId, disk) ==
    loadFrom(cfg, ws, bankId, contextFileName(cfg, bankId), disk)

\* the Workspace after ensureBankLoadedInWorkspace, and what it returned
ensureBankLoadedInWorkspace(cfg, ws, bankId, disk) ==
    IF bankId \in DOMAIN ws.banks THEN [ok |-> TRUE, ws |-> ws]
    ELSE loadFrom(cfg, ws, bankId, contextFileName(cfg, bankId), disk)

(***************************************************************************)
(* Resolver: lookups.                                                      *)
(***************************************************************************)
\* the three find calls of getValue, in the Workspace ws2 the load left
findCell(ws2, bank, reg, addr) ==
    IF bank \notin DOMAIN ws2.banks THEN [found |-> FALSE, out |-> "", ws |-> ws2]
    ELSE IF reg \notin DOMAIN ws2.banks[bank].regs
    THEN [found |-> FALSE, out |-> "", ws |-> ws2]
    ELSE IF addr \notin DOMAIN ws2.banks[bank].regs[reg]
    THEN [found |-> FALSE, out |-> "", ws |-> ws2]
    ELSE [found |-> TRUE, out |-> ws2.banks[bank].regs[reg][addr], ws |-> ws2]

\* Resolver::getValue: whether the cell exists, its value, and the
\* Workspace as the on-demand load leaves it
getValue(cfg, ws, disk, bank, reg, addr) ==
    findCell(ensureBankLoadedInWorkspace(cfg, ws, bank, disk).ws, bank, reg, addr)

getValueTwoPart(cfg, ws, disk, bank, addr) ==
    getValue(cfg, ensureBankLoadedInWorkspace(cfg, ws, bank, disk).ws, disk,
             bank, LL(1), addr)

includeFile(disk, name) ==
    LET p == "files/" \o name
    IN  IF ~exists(disk, p) THEN "[Missing file: " \o name \o "]"
        ELSE IF ~canOpen(disk, p) THEN "[Cannot open file: " \o name \o "]"
        ELSE readAll(disk, p)

(***************************************************************************)
(* Resolver: the five regular expressions.  A match is the leftmost one at *)
(* or after the search start, as std::regex_search finds it; g holds the   *)
(* capture groups.                                                         *)
(***************************************************************************)
Digits  == Chars(DecDigits)
Letters == Chars(UpperCase) \cup Chars(LowerCase)

isalnum(c) == c \in Digits \cup Letters
isdigit(c) == c \in Digits
isalpha(c) == c \in Letters

NoMatch == [found |-> FALSE, pos |-> 0, end |-> 0, g |-> <<>>]
Match(pos, end, g) == [found |-> TRUE, pos |-> pos, end |-> end, g |-> g]

RECURSIVE alnumRunEnd(_, _)
\* where the longest run of [0-9A-Za-z] starting at i ends (i-1: no run)
alnumRunEnd(s, i) ==
    IF isalnum(CharAt(s, i)) THEN alnumRunEnd(s, i + 1) ELSE i - 1

RECURSIVE digitRunEnd(_, _)
\* where the longest run of \d starting at i ends (i-1: no run)
digitRunEnd(s, i) ==
    IF isdigit(CharAt(s, i)) THEN digitRunEnd(s, i + 1) ELSE i - 1

\* @file\(([^)]+)\) at position p
fileAt(s, p) ==
    LET q == FindChar(s, ")", p + 6)
    IN  IF CharAt(s, p) = "@" /\ p + 5 <= Len(s)
           /\ SubSeq(s, p, p + 5) = "@file(" /\ q > p + 6
        THEN Match(p, q, <<SubSeq(s, p + 6, q - 1)>>)
        ELSE NoMatch

\* r([0-9A-Za-z]+)\.([0-9A-Za-z]+) at position p
sameAt(s, p) ==
    LET e1 == alnumRunEnd(s, p + 1)
        e2 == alnumRunEnd(s, e1 + 2)
    IN  IF CharAt(s, p) = "r" /\ e1 >= p + 1 /\ CharAt(s, e1 + 1) = "."
           /\ e2 >= e1 + 2
        THEN Match(p, e2, <<SubSeq(s, p + 1, e1), SubSeq(s, e1 + 2, e2)>>)
        ELSE NoMatch

\* <prefix>([0-9A-Za-z]+)\.([0-9A-Za-z]+)\.([0-9A-Za-z]+) at position p,
\* for a prefix that is an ordinary character of a regular expression
pref3At(s, p, prefix) ==
    LET e1 == alnumRunEnd(s, p + 1)
        e2 == alnumRunEnd(s, e1 + 2)
        e3 == alnumRunEnd(s, e2 + 2)
    IN  IF CharAt(s, p) = prefix /\ e1 >= p + 1 /\ CharAt(s, e1 + 1) = "."
           /\ e2 >= e1 + 2 /\ CharAt(s, e2 + 1) = "." /\ e3 >= e2 + 2
        THEN Match(p, e3, <<SubSeq(s, p + 1, e1), SubSeq(s, e1 + 2, e2),
                            SubSeq(s, e2 + 2, e3)>>)
        ELSE NoMatch

\* ([A-Za-z])([0-9A-Za-z]+)\.([0-9A-Za-z]+)(?!\.) at position p: when the
\* longest third group is followed by a '.', the matcher backtracks and
\* gives up the group's last character, which a '.' does not follow
twoAt(s, p) ==
    LET e1 == alnumRunEnd(s, p + 1)
        e2 == alnumRunEnd(s, e1 + 2)
        e  == IF CharAt(s, e2 + 1) = "." THEN e2 - 1 ELSE e2
    IN  IF isalpha(CharAt(s, p)) /\ e1 >= p + 1 /\ CharAt(s, e1 + 1) = "."
           /\ e >= e1 + 2
        THEN Match(p, e, <<CharAt(s, p), SubSeq(s, p + 1, e1), SubSeq(s, e1 + 2, e)>>)
        ELSE NoMatch

\* (\d+)\.(\d+)\.(\d+) at position p
triAt(s, p) ==
    LET e1 == digitRunEnd(s, p)
        e2 == digitRunEnd(s, e1 + 2)
        e3 == digitRunEnd(s, e2 + 2)
    IN  IF e1 >= p /\ CharAt(s, e1 + 1) = "." /\ e2 >= e1 + 2
           /\ CharAt(s, e2 + 1) = "." /\ e3 >= e2 + 2
        THEN Match(p, e3, <<SubSeq(s, p, e1), SubSeq(s, e1 + 2, e2),
                            SubSeq(s, e2 + 2, e3)>>)
        ELSE NoMatch

RECURSIVE searchFile(_, _)
searchFile(s, p) ==
    IF p > Len(s) THEN NoMatch
    ELSE LET m == fileAt(s, p)
         IN  IF m.found THEN m ELSE searchFile(s, p + 1)

RECURSIVE searchSame(_, _)
searchSame(s, p) ==
    IF p > Len(s) THEN NoMatch
    ELSE LET m == sameAt(s, p)
         IN  IF m.found THEN m ELSE searchSame(s, p + 1)

RECURSIVE searchPref3(_, _, _)
searchPref3(s, p, prefix) ==
    IF p > Len(s) THEN NoMatch
    ELSE LET m == pref3At(s, p, prefix)
         IN  IF m.found THEN m ELSE searchPref3(s, p + 1, prefix)

RECURSIVE searchTwo(_, _)
searchTwo(s, p) ==
    IF p > Len(s) THEN NoMatch
    ELSE LET m == twoAt(s, p)
         IN  IF m.found THEN m ELSE searchTwo(s, p + 1)

RECURSIVE searchTri(_, _)
searchTri(s, p) ==
    IF p > Len(s) THEN NoMatch
    ELSE LET m == triAt(s, p)
         IN  IF m.found THEN m ELSE searchTri(s, p + 1)

(***************************************************************************)
(* Resolver: std::to_string and std::stoll.                                *)
(***************************************************************************)
to_string(v) ==
    IF LLIsZero(v) THEN "0"
    ELSE IF LLIsNeg(v) THEN "-" \o toBaseNDigits(LLNeg(v), 10)
    ELSE toBaseNDigits(v, 10)

RECURSIVE stollLoop(_, _, _)
stollLoop(s, i, v) ==
    IF i > Len(s) THEN [thrown |-> FALSE, out |-> v]
    ELSE LET d == digitValue(CharAt(s, i))
         IN  IF LLMulAddOverflows(v, 10, d) THEN [thrown |-> TRUE, out |-> LL(0)]
             ELSE stollLoop(s, i + 1, LLMulAdd(v, 10, d))

\* std::stoll of a run of decimal digits: the value, or std::out_of_range
\* thrown when it does not fit a long long
stoll(s) == stollLoop(s, 1, LL(0))

(***************************************************************************)
(* Resolver::resolve.  The state of a pass is acc: the text put out so     *)
(* far, the Workspace (on-demand loads change it), the caller's visited    *)
(* set (passed by reference) and whether an exception is in flight.        *)
(***************************************************************************)
\* auto v2=visited; v2.insert(key): the set handed to the recursive call
visitedForCallee(visited, key) == visited \cup {key}

\* a resolver that hands its own set to the recursive call instead of a copy
visitedSharedAfterCall(visited, key) == visited \cup {key}

\* the caller's own set after the call: the copy leaves it as it was
visitedAfterCall(visited, key) == visited

Emit(acc, text) == [acc EXCEPT !.out = @ \o text]

RECURSIVE resolve(_, _, _, _, _, _)

\* out += resolve(v, bank, v2): sub is what the recursive call gave
appendResolved(acc, key, sub) ==
    [out     |-> acc.out \o sub.s,
     ws      |-> sub.ws,
     visited |-> visitedAfterCall(acc.visited, key),
     thrown  |-> sub.thrown]

\* a resolver that puts the target's value out as it is stored
expandFoundRaw(tok, key, bank, g, acc, cfg, disk) ==
    IF ~g.found THEN [Emit(acc, "[Missing " \o tok \o "]") EXCEPT !.ws = g.ws]
    ELSE [Emit(acc, g.out) EXCEPT !.ws = g.ws]

\* a resolver that leaves the token in place and puts the result after it
expandFoundAppended(tok, key, bank, g, acc, cfg, disk) ==
    IF ~g.found THEN [Emit(acc, "[Missing " \o tok \o "]") EXCEPT !.ws = g.ws]
    ELSE appendResolved(Emit(acc, tok), key,
            resolve(g.out, bank, visitedForCallee(acc.visited, key), cfg, g.ws, disk))

\* the lookup done, with result g: the missing marker or the recursive call
expandFound(tok, key, bank, g, acc, cfg, disk) ==
    IF ~g.found THEN [Emit(acc, "[Missing " \o tok \o "]") EXCEPT !.ws = g.ws]
    ELSE appendResolved(acc, key,
            resolve(g.out, bank, visitedForCallee(acc.visited, key), cfg, g.ws, disk))

\* what every pass does with a well-formed token: the circular test, the
\* lookup (of register 1 through getValueTwoPart for a two-part token), and
\* the recursive call whose result replaces the token
expandRef(tok, key, bank, reg, addr, twoPart, acc, cfg, disk) ==
    IF key \in acc.visited THEN Emit(acc, "[Circular Ref: " \o tok \o "]")
    ELSE expandFound(tok, key, bank,
            IF twoPart THEN getValueTwoPart(cfg, acc.ws, disk, bank, addr)
            ELSE getValue(cfg, acc.ws, disk, bank, reg, addr),
            acc, cfg, disk)

RECURSIVE fileLoop(_, _, _, _)
\* the @file(...) pass
fileLoop(s, from, out, disk) ==
    LET m == searchFile(s, from)
    IN  IF ~m.found THEN out \o Suffix(s, from)
        ELSE fileLoop(s, m.end + 1,
                      out \o SubSeq(s, from, m.pos - 1) \o includeFile(disk, trim(m.g[1])),
                      disk)

\* What a pass makes of a match m: the token tok, and what it does with it:
\* "keep" puts the token out as it is, "bad" puts out the BadRef marker,
\* "throw" is std::stoll throwing, "expand" looks the reference up.
NoToken == [found |-> FALSE]
Token(m, tok, what) ==
    [found |-> TRUE, pos |-> m.pos, end |-> m.end, tok |-> tok, what |-> what]
Ref(m, tok, key, bank, reg, addr, twoPart) ==
    [found |-> TRUE, pos |-> m.pos, end |-> m.end, tok |-> tok, what |-> "expand",
     key |-> key, bank |-> bank, reg |-> reg, addr |-> addr, twoPart |-> twoPart]

\* the same-bank pass, r<reg>.<addr>: r and a are the parsed components
sameRef(m, tok, r, a, currentBank) ==
    IF ~r.ok \/ ~a.ok THEN Token(m, tok, "bad")
    ELSE Ref(m, tok,
             to_string(currentBank) \o "." \o to_string(r.out) \o "." \o to_string(a.out),
             currentBank, r.out, a.out, FALSE)

sameToken(m, s, currentBank, cfg) ==
    IF ~m.found THEN NoToken
    ELSE sameRef(m, SubSeq(s, m.pos, m.end), parseIntBase(m.g[1], cfg.base),
                 parseIntBase(m.g[2], cfg.base), currentBank)

\* the prefixed three-part pass, <prefix><bank>.<reg>.<addr>
pref3Ref(m, tok, b, r, a, cfg) ==
    IF ~b.ok \/ ~r.ok \/ ~a.ok THEN Token(m, tok, "keep")
    ELSE Ref(m, tok, cfg.prefix \o m.g[1] \o "." \o m.g[2] \o "." \o m.g[3],
             b.out, r.out, a.out, FALSE)

pref3Token(m, s, cfg) ==
    IF ~m.found THEN NoToken
    ELSE pref3Ref(m, SubSeq(s, m.pos, m.end), parseIntBase(m.g[1], cfg.base),
                  parseIntBase(m.g[2], cfg.base), parseIntBase(m.g[3], cfg.base), cfg)

\* the two-part pass, <prefix><bank>.<addr>: register 1
twoRef(m, tok, b, a, cfg) ==
    IF m.g[1] # cfg.prefix THEN Token(m, tok, "keep")
    ELSE IF ~b.ok \/ ~a.ok THEN Token(m, tok, "bad")
    ELSE Ref(m, tok, m.g[1] \o m.g[2] \o "." \o m.g[3], b.out, LL(1), a.out, TRUE)

twoToken(m, s, cfg) ==
    IF ~m.found THEN NoToken
    ELSE twoRef(m, SubSeq(s, m.pos, m.end), parseIntBase(m.g[2], cfg.base),
                parseIntBase(m.g[3], cfg.base), cfg)

\* the numeric pass, <bank>.<reg>.<addr> in decimal digits
triRef(m, tok, s, b, r, a) ==
    IF m.pos > 1 /\ isalnum(CharAt(s, m.pos - 1)) THEN Token(m, tok, "keep")
    ELSE IF b.thrown \/ r.thrown \/ a.thrown THEN Token(m, tok, "throw")
    ELSE Ref(m, tok,
             to_string(b.out) \o "." \o to_string(r.out) \o "." \o to_string(a.out),
             b.out, r.out, a.out, FALSE)

triToken(m, s) ==
    IF ~m.found THEN NoToken
    ELSE triRef(m, SubSeq(s, m.pos, m.end), s, stoll(m.g[1]), stoll(m.g[2]),
                stoll(m.g[3]))

\* the four blocks of resolve that follow the @file block, in their order
Passes == <<"same", "pref3", "two", "tri">>

\* std::regex_search(pos, s.cend(), m, re) of a block, and its token
nextToken(pass, s, from, currentBank, cfg) ==
    CASE pass = "same"  -> sameToken(searchSame(s, from), s, currentBank, cfg)
      [] pass = "pref3" -> pref3Token(searchPref3(s, from, cfg.prefix), s, cfg)
      [] pass = "two"   -> twoToken(searchTwo(s, from), s, cfg)
      [] pass = "tri"   -> triToken(searchTri(s, from), s)

\* the body of a block's while loop for the token t, after out.append(prefix)
handle(pre, t, cfg, disk) ==
    CASE t.what = "keep"  -> Emit(pre, t.tok)
      [] t.what = "bad"   -> Emit(pre, "[BadRef " \o t.tok \o "]")
      [] t.what = "throw" -> [pre EXCEPT !.thrown = TRUE]
      [] OTHER -> expandRef(t.tok, t.key, t.bank, t.reg, t.addr, t.twoPart,
                            pre, cfg, disk)

RECURSIVE passLoop(_, _, _, _, _, _, _)
\* one turn of a block's loop, t being the token found at or after from
passStep(pass, s, from, acc, t, currentBank, cfg, disk) ==
    IF ~t.found THEN Emit(acc, Suffix(s, from))
    ELSE passLoop(pass, s, t.end + 1,
                  handle(Emit(acc, SubSeq(s, from, t.pos - 1)), t, cfg, disk),
                  currentBank, cfg, disk)

\* a block of resolve: the loop over the matches of its expression in s
passLoop(pass, s, from, acc, currentBank, cfg, disk) ==
    IF acc.thrown THEN acc
    ELSE passStep(pass, s, from, acc, nextToken(pass, s, from, currentBank, cfg),
                  currentBank, cfg, disk)

RECURSIVE runPasses(_, _, _, _, _)
\* the blocks in turn: each scans the string the block before it left
runPasses(passes, prev, currentBank, cfg, disk) ==
    IF passes = <<>> THEN prev
    ELSE runPasses(Tail(passes),
                   passLoop(Head(passes), prev.out, 1, [prev EXCEPT !.out = ""],
                            currentBank, cfg, disk),
                   currentBank, cfg, disk)

\* return s
returned(acc) ==
    [s |-> acc.out, ws |-> acc.ws, visited |-> acc.visited, thrown |-> acc.thrown]

\* Resolver::resolve(input, currentBank, visited): the string returned (s),
\* or thrown; the Workspace and the visited set as the call leaves them
resolve(input, currentBank, visited, cfg, ws, disk) ==
    returned(runPasses(Passes,
                       [out |-> fileLoop(input, 1, "", disk), ws |-> ws,
                        visited |-> visited, thrown |-> FALSE],
                       currentBank, cfg, disk))

(***************************************************************************)
(* resolveBankToText and exportBankToJSON.  The state of the loops is acc: *)
(* the text written so far, the Workspace, and whether resolve has thrown. *)
(***************************************************************************)
\* auto& b = ws.banks[bankId]: an absent bank is default-constructed in place
withBank(ws, bankId) ==
    IF bankId \in DOMAIN ws.banks THEN ws
    ELSE [ws EXCEPT !.banks = MapPut(ws.banks, bankId, EmptyBank)]

\* what a loop in state acc does with r, the result of R.resolve: it writes
\* the text for it, or the exception leaves the loop
written(acc, r, text) ==
    IF r.thrown THEN [acc EXCEPT !.ws = r.ws, !.thrown = TRUE]
    ELSE [out |-> acc.out \o text, ws |-> r.ws, thrown |-> FALSE]

\* os << "\t" << addr << "\t" << out << "\n"
textLine(aid, r, cfg) ==
    "\t" \o toBaseN(aid, cfg.base, cfg.widthAddr) \o "\t" \o r.s \o "\n"

\* one address of resolveBankToText: r is R.resolve(val, b.id, visited)
textAddr(acc, aid, r, cfg) == written(acc, r, textLine(aid, r, cfg))

\* the end of an export: the closing text is written and os.str() returned
closed(acc, text) == [s |-> acc.out \o text, ws |-> acc.ws, thrown |-> acc.thrown]

RECURSIVE textAddrs(_, _, _, _, _, _)
\* the address lines of one register, each value resolved
textAddrs(addrs, keys, acc, cur, cfg, disk) ==
    IF keys = <<>> \/ acc.thrown THEN acc
    ELSE textAddrs(addrs, Tail(keys),
            textAddr(acc, Head(keys),
                     resolve(addrs[Head(keys)], cur, {}, cfg, acc.ws, disk), cfg),
            cur, cfg, disk)

\* the marker line of a register, written when the bank holds more than one
regMark(b, rid, cfg) ==
    IF Cardinality(DOMAIN b.regs) > 1
    THEN toBaseN(rid, cfg.base, cfg.widthReg) \o "\n" ELSE ""

RECURSIVE textRegs(_, _, _, _, _)
\* the register blocks
textRegs(b, keys, acc, cfg, disk) ==
    IF keys = <<>> \/ acc.thrown THEN acc
    ELSE textRegs(b, Tail(keys),
            textAddrs(b.regs[Head(keys)], SortedKeys(DOMAIN b.regs[Head(keys)]),
                      [acc EXCEPT !.out = @ \o regMark(b, Head(keys), cfg)],
                      b.id, cfg, disk),
            cfg, disk)

\* the header line of resolveBankToText
textHeader(b, cfg) ==
    cfg.prefix \o toBaseN(b.id, cfg.base, cfg.widthBank) \o "\t(" \o b.title \o "){\n"

\* resolveBankToText with ws1 the Workspace after auto& b = ws.banks[bankId]
textOf(cfg, ws1, b, disk) ==
    closed(textRegs(b, SortedKeys(DOMAIN b.regs),
                    [out |-> textHeader(b, cfg), ws |-> ws1, thrown |-> FALSE],
                    cfg, disk),
           "}\n")

\* resolveBankToText(cfg, ws, bankId): the text returned (s), or thrown,
\* and the Workspace as the call leaves it
resolveBankToText(cfg, ws, bankId, disk) ==
    textOf(cfg, withBank(ws, bankId), withBank(ws, bankId).banks[bankId], disk)

RECURSIVE esc(_)
\* the lambda esc of exportBankToJSON
esc(s) ==
    IF s = "" THEN ""
    ELSE LET c == CharAt(s, 1)
         IN  (IF c = "\\" \/ c = "\"" THEN "\\" \o c
              ELSE IF c = "\n" THEN "\\n"
              ELSE c) \o esc(Tail(s))


\* the object written for one address, after the separator
jsonObject(aid, firstA, r, cfg) ==
    (IF firstA THEN "" ELSE ",\n")
        \o "      {\"id\":\"" \o toBaseN(aid, cfg.base, cfg.widthAddr)
        \o "\",\"value\":\"" \o esc(r.s) \o "\"}"

\* one address of exportBankToJSON: r is R.resolve(val, b.id, visited)
jsonAddr(acc, aid, firstA, r, cfg) == written(acc, r, jsonObject(aid, firstA, r, cfg))

RECURSIVE jsonAddrs(_, _, _, _, _, _, _)
\* the address objects of one register, each value resolved and escaped
jsonAddrs(addrs, keys, firstA, acc, cur, cfg, disk) ==
    IF keys = <<>> \/ acc.thrown THEN acc
    ELSE jsonAddrs(addrs, Tail(keys), FALSE,
            jsonAddr(acc, Head(keys), firstA,
                     resolve(addrs[Head(keys)], cur, {}, cfg, acc.ws, disk), cfg),
            cur, cfg, disk)

\* the opening of a register object, after the separator
jsonRegOpen(rid, firstR, cfg) ==
    (IF firstR THEN "" ELSE ",\n")
        \o "    {\"id\":\"" \o toBaseN(rid, cfg.base, cfg.widthReg)
        \o "\",\"addresses\":[\n"

\* os << "\n    ]}" after the addresses of a register
jsonRegClose(body) ==
    IF body.thrown THEN body ELSE [body EXCEPT !.out = @ \o "\n    ]}"]

RECURSIVE jsonRegs(_, _, _, _, _, _)
\* the register objects
jsonRegs(b, keys, firstR, acc, cfg, disk) ==
    IF keys = <<>> \/ acc.thrown THEN acc
    ELSE jsonRegs(b, Tail(keys), FALSE,
            jsonRegClose(
                jsonAddrs(b.regs[Head(keys)], SortedKeys(DOMAIN b.regs[Head(keys)]),
                          TRUE,
                          [acc EXCEPT !.out = @ \o jsonRegOpen(Head(keys), firstR, cfg)],
                          b.id, cfg, disk)),
            cfg, disk)

\* the opening lines of exportBankToJSON
jsonHeader(b, cfg) ==
    "{\n  \"bank\": \"" \o cfg.prefix
        \o toBaseN(b.id, cfg.base, cfg.widthBank) \o "\",\n"
        \o "  \"title\": \"" \o b.title \o "\",\n"
        \o "  \"registers\": [\n"

\* exportBankToJSON with ws1 the Workspace after auto& b = ws.banks[bankId]
jsonOf(cfg, ws1, b, disk) ==
    closed(jsonRegs(b, SortedKeys(DOMAIN b.regs), TRUE,
                    [out |-> jsonHeader(b, cfg), ws |-> ws1, thrown |-> FALSE],
                    cfg, disk),
           "\n  ]\n}\n")

\* exportBankToJSON(cfg, ws, bankId): the text returned (s), or thrown, and
\* the Workspace as the call leaves it
exportBankToJSON(cfg, ws, bankId, disk) ==
    jsonOf(cfg, withBank(ws, bankId), withBank(ws, bankId).banks[bankId], disk)

(***************************************************************************)
(* scripted_kernel.hpp: files, manifests and discovery.                    *)
(***************************************************************************)
\* s.find(sub, from-1): position (1-based) of the first occurrence, 0: npos
FindStr(s, sub, from) ==
    IF \E i \in from..(Len(s) - Len(sub) + 1) : SubSeq(s, i, i + Len(sub) - 1) = sub
    THEN CHOOSE i \in from..(Len(s) - Len(sub) + 1) :
            /\ SubSeq(s, i, i + Len(sub) - 1) = sub
            /\ \A j \in from..(i - 1) : SubSeq(s, j, j + Len(sub) - 1) # sub
    ELSE 0

\* fs::path::parent_path of an absolute path below the root
Parent(p) == SubSeq(p, 1, RFindChar(p, "/") - 1)

\* fs::path::filename
Filename(p) == Suffix(p, RFindChar(p, "/") + 1)

\* a / b on fs::path: an absolute b replaces a
PathJoin(a, b) == IF CharAt(b, 1) = "/" THEN b ELSE a \o "/" \o b

\* p and the directories above it, below the working directory
Ancestors(p) ==
    {SubSeq(p, 1, i - 1) : i \in {j \in (Len(Cwd) + 2)..Len(p) : CharAt(p, j) = "/"}}
        \cup {p}

\* fs::create_directories(p): the directories missing on the way are made;
\* std::filesystem_error is thrown when a file stands where one must be
create_directories(disk, p) ==
    IF \E a \in Ancestors(absolute(p)) : a \in DOMAIN disk /\ disk[a].kind # "dir"
    THEN [thrown |-> TRUE, disk |-> disk]
    ELSE [thrown |-> FALSE,
          disk |-> [a \in DOMAIN disk \cup Ancestors(absolute(p)) |->
                       IF a \in DOMAIN disk THEN disk[a] ELSE Directory]]

\* readTextFile(p, out): out keeps the value passed in when the open fails
readTextFile(disk, p, out) ==
    IF canOpen(disk, p) THEN [ok |-> TRUE, out |-> readAll(disk, p)]
    ELSE [ok |-> FALSE, out |-> out]

\* the std::ofstream of writeTextFile opens, truncating, unless a directory
\* or a file that cannot be opened stands at p
canWrite(disk, p) ==
    absolute(p) \notin DOMAIN disk
        \/ (disk[absolute(p)].kind = "file" /\ disk[absolute(p)].readable)

\* writeTextFile after its create_directories, which left made
writeInto(made, p, s) ==
    IF made.thrown THEN [ok |-> FALSE, thrown |-> TRUE, disk |-> made.disk]
    ELSE IF ~canWrite(made.disk, p)
    THEN [ok |-> FALSE, thrown |-> FALSE, disk |-> made.disk]
    ELSE [ok |-> TRUE, thrown |-> FALSE,
          disk |-> MapPut(made.disk, absolute(p), File(s))]

writeTextFile(disk, p, s) == writeInto(create_directories(disk, Parent(absolute(p))), p, s)

RECURSIVE jsonEscape(_)
\* (the texts of the model hold no control character but \n and \t)
jsonEscape(s) ==
    IF s = "" THEN ""
    ELSE (IF CharAt(s, 1) = "\\" THEN "\\\\"
          ELSE IF CharAt(s, 1) = "\"" THEN "\\\""
          ELSE IF CharAt(s, 1) = "\n" THEN "\\n"
          ELSE IF CharAt(s, 1) = "\t" THEN "\\t"
          ELSE CharAt(s, 1)) \o jsonEscape(Tail(s))

\* the last two finds of jsonGetStr: p is where the ':' was found
quotedAfter(j, p, open) ==
    IF p = 0 \/ open = 0 THEN ""
    ELSE IF FindChar(j, "\"", open + 1) = 0 THEN ""
    ELSE SubSeq(j, open + 1, FindChar(j, "\"", open + 1) - 1)

\* the find of ':' of jsonGetStr: p is where the quoted key was found
valueAfter(j, p, colon) ==
    IF p = 0 \/ colon = 0 THEN "" ELSE quotedAfter(j, colon, FindChar(j, "\"", colon))

keyAt(j, p) == IF p = 0 THEN "" ELSE valueAfter(j, p, FindChar(j, ":", p))

jsonGetStr(j, key) == keyAt(j, FindStr(j, "\"" \o key \o "\"", 1))

PluginManifest(j, dir) ==
    [name      |-> jsonGetStr(j, "name"),
     entry_win |-> jsonGetStr(j, "entry_win"),
     entry_lin |-> jsonGetStr(j, "entry_lin"),
     dir       |-> dir]

loadManifest(disk, dir) ==
    PluginManifest(readTextFile(disk, PathJoin(dir, "plugin.json"), "").out, dir)

RECURSIVE listed(_)
\* the entries of a directory in the order fs::directory_iterator gives
\* them, which is unspecified: some fixed order
listed(S) ==
    IF S = {} THEN <<>>
    ELSE LET e == CHOOSE x \in S : TRUE IN <<e>> \o listed(S \ {e})

RECURSIVE discovered(_, _, _)
\* the loop of discoverPlugins over the entries es of root
discovered(disk, root, es) ==
    IF es = <<>> THEN <<>>
    ELSE (IF disk[Head(es)].kind = "dir"
             /\ exists(disk, PathJoin(Head(es), "plugin.json"))
             /\ loadManifest(disk, PathJoin(root, Filename(Head(es)))).name # ""
          THEN <<loadManifest(disk, PathJoin(root, Filename(Head(es))))>>
          ELSE <<>>) \o discovered(disk, root, Tail(es))

discoverPlugins(disk, root) ==
    IF ~exists(disk, root) THEN <<>>
    ELSE discovered(disk, root,
                    listed({e \in DOMAIN disk : Parent(e) = absolute(root)}))

\* Kernel::find: the first manifest of that name (0: nullptr)
find(plugins, name) ==
    IF \E i \in 1..Len(plugins) : plugins[i].name = name
    THEN CHOOSE i \in 1..Len(plugins) :
            /\ plugins[i].name = name
            /\ \A j \in 1..(i - 1) : plugins[j].name # name
    ELSE 0

(***************************************************************************)
(* Kernel::run.  A call ends in a report (ok or not), or in an exception   *)
(* leaving run; ws and disk are the Workspace and the files as the call    *)
(* leaves them, child whether std::system was called.                      *)
(***************************************************************************)
kWindows == FALSE

Failed(report, ws, disk, child) ==
    [done |-> TRUE, ok |-> FALSE, thrown |-> FALSE, report |-> report,
     json |-> "", ws |-> ws, disk |-> disk, child |-> child]

Thrown(ws, disk) ==
    [done |-> TRUE, ok |-> FALSE, thrown |-> TRUE, report |-> "",
     json |-> "", ws |-> ws, disk |-> disk, child |-> FALSE]

Succeeded(report, json, ws, disk) ==
    [done |-> TRUE, ok |-> TRUE, thrown |-> FALSE, report |-> report,
     json |-> json, ws |-> ws, disk |-> disk, child |-> TRUE]

bankStrOf(cfg, bank) == cfg.prefix \o toBaseN(bank, cfg.base, cfg.widthBank)

\* files/out/plugins/<bank>/r<reg>a<addr>/<plugin>
outdirOf(cfg, bank, reg, addr, name) ==
    PathJoin(PathJoin(PathJoin("files/out/plugins", bankStrOf(cfg, bank)),
                      "r" \o toBaseN(reg, cfg.base, cfg.widthReg)
                          \o "a" \o toBaseN(addr, cfg.base, cfg.widthAddr)),
             name)

entryOf(P) == IF kWindows THEN P.entry_win ELSE P.entry_lin

entryPathOf(P) == absolute(PathJoin(P.dir, entryOf(P)))

\* the stdin member of input.json
stdinOf(disk, stdin_json_or_path) ==
    IF stdin_json_or_path = "" THEN "{}"
    ELSE IF exists(disk, stdin_json_or_path)
    THEN (IF readTextFile(disk, stdin_json_or_path, "{}").out = "" THEN "{}"
          ELSE readTextFile(disk, stdin_json_or_path, "{}").out)
    ELSE stdin_json_or_path

inputJson(cfg, bank, reg, addr, title, codeFile, stdin_json) ==
    "{\n"
    \o "  \"bank\": \"" \o jsonEscape(bankStrOf(cfg, bank)) \o "\",\n"
    \o "  \"reg\": \"" \o jsonEscape(toBaseN(reg, cfg.base, cfg.widthReg)) \o "\",\n"
    \o "  \"addr\": \"" \o jsonEscape(toBaseN(addr, cfg.base, cfg.widthAddr)) \o "\",\n"
    \o "  \"title\": \"" \o jsonEscape(title) \o "\",\n"
    \o "  \"code_file\": \"" \o jsonEscape(codeFile) \o "\",\n"
    \o "  \"stdin\": " \o stdin_json \o "\n"
    \o "}\n"

\* input.json was written (wrote): the call is about to start the plugin
runInput(P, absOutdir, r, wrote) ==
    IF wrote.thrown THEN Thrown(r.ws, wrote.disk)
    ELSE IF ~wrote.ok
    THEN Failed("Cannot write " \o PathJoin(absOutdir, "input.json"),
                r.ws, wrote.disk, FALSE)
    ELSE [done |-> FALSE, P |-> P, absOutdir |-> absOutdir,
          ws |-> r.ws, disk |-> wrote.disk]

\* code.txt was written (wrote)
runCode(P, bank, reg, addr, stdinArg, cfg, r, absOutdir, wrote) ==
    IF wrote.thrown THEN Thrown(r.ws, wrote.disk)
    ELSE IF ~wrote.ok
    THEN Failed("Cannot write " \o PathJoin(absOutdir, "code.txt"),
                r.ws, wrote.disk, FALSE)
    ELSE runInput(P, absOutdir, r,
                  writeTextFile(wrote.disk, PathJoin(absOutdir, "input.json"),
                                inputJson(cfg, bank, reg, addr,
                                          r.ws.banks[bank].title,
                                          PathJoin(absOutdir, "code.txt"),
                                          stdinOf(wrote.disk, stdinArg))))

\* the output directory was made (made)
runMade(P, bank, reg, addr, stdinArg, cfg, r, outdir, made) ==
    IF made.thrown THEN Thrown(r.ws, made.disk)
    ELSE IF entryOf(P) = ""
    THEN Failed("Plugin entry not set in manifest.", r.ws, made.disk, FALSE)
    ELSE IF ~exists(made.disk, entryPathOf(P))
    THEN Failed("Entry not found: " \o entryPathOf(P), r.ws, made.disk, FALSE)
    ELSE runCode(P, bank, reg, addr, stdinArg, cfg, r, absolute(outdir),
                 writeTextFile(made.disk, PathJoin(absolute(outdir), "code.txt"),
                               r.s))

\* the value of the cell was resolved (r)
runResolved(P, bank, reg, addr, stdinArg, cfg, r, disk, outdir) ==
    IF r.thrown THEN Thrown(r.ws, disk)
    ELSE runMade(P, bank, reg, addr, stdinArg, cfg, r, outdir,
                 create_directories(disk, outdir))

\* the cell was looked up (g)
runCell(P, bank, reg, addr, stdinArg, cfg, g, disk) ==
    IF ~g.found
    THEN Failed("No value at reg " \o to_string(reg) \o " addr " \o to_string(addr),
                g.ws, disk, FALSE)
    ELSE runResolved(P, bank, reg, addr, stdinArg, cfg,
                     resolve(g.out, bank, {}, cfg, g.ws, disk), disk,
                     outdirOf(cfg, bank, reg, addr, P.name))

\* Kernel::run looking the cell up before the plugin
runStartCellFirst(plugins, name, bank, reg, addr, stdinArg, cfg, ws, disk) ==
    IF ~getValue(cfg, ws, disk, bank, reg, addr).found
    THEN Failed("No value at reg " \o to_string(reg) \o " addr " \o to_string(addr),
                getValue(cfg, ws, disk, bank, reg, addr).ws, disk, FALSE)
    ELSE IF find(plugins, name) = 0
    THEN Failed("Plugin not found: " \o name, ws, disk, FALSE)
    ELSE runCell(plugins[find(plugins, name)], bank, reg, addr, stdinArg, cfg,
                 getValue(cfg, ensureBankLoadedInWorkspace(cfg, ws, bank, disk).ws,
                          disk, bank, reg, addr),
                 disk)

\* Kernel::run up to the call of std::system
runStart(plugins, name, bank, reg, addr, stdinArg, cfg, ws, disk) ==
    IF find(plugins, name) = 0
    THEN Failed("Plugin not found: " \o name, ws, disk, FALSE)
    ELSE runCell(plugins[find(plugins, name)], bank, reg, addr, stdinArg, cfg,
                 getValue(cfg, ensureBankLoadedInWorkspace(cfg, ws, bank, disk).ws,
                          disk, bank, reg, addr),
                 disk)

\* what a plugin process does: the code it exits with, what it writes to
\* stdout and stderr, and output.json when it writes one
Child(ec, wrote, out, log, err) ==
    [ec |-> ec, wrote |-> wrote, out |-> out, log |-> log, err |-> err]

\* the files of the output directory after the plugin has run
childFiles(disk, absOutdir, child) ==
    [f \in DOMAIN disk \cup {PathJoin(absOutdir, "run.log"),
                             PathJoin(absOutdir, "run.err")}
                       \cup (IF child.wrote THEN {PathJoin(absOutdir, "output.json")}
                             ELSE {}) |->
        IF f = PathJoin(absOutdir, "run.log") THEN File(child.log)
        ELSE IF f = PathJoin(absOutdir, "run.err") THEN File(child.err)
        ELSE IF f = PathJoin(absOutdir, "output.json") /\ child.wrote
        THEN File(child.out)
        ELSE disk[f]]

\* the wait status std::system returns for a process that exited with code
ExitStatus(code) == code * 256

\* std::system of /bin/sh -c '"entry" "input" "outdir" > "log" 2> "err"':
\* the shell opens the two redirections in turn and exits with code 2 when
\* one cannot be opened
system(disk, absOutdir, child) ==
    IF ~canWrite(disk, PathJoin(absOutdir, "run.log"))
    THEN [ec |-> ExitStatus(2), disk |-> disk]
    ELSE IF ~canWrite(disk, PathJoin(absOutdir, "run.err"))
    THEN [ec |-> ExitStatus(2),
          disk |-> MapPut(disk, PathJoin(absOutdir, "run.log"), File(""))]
    ELSE [ec |-> ExitStatus(child.ec), disk |-> childFiles(disk, absOutdir, child)]

\* the report of a run that found output.json
reportOf(ec, logtxt, errtxt) ==
    "exit=" \o to_string(LL(ec)) \o "\n"
    \o (IF logtxt = "" THEN "" ELSE "log:\n" \o logtxt \o "\n")
    \o (IF errtxt = "" THEN "" ELSE "stderr:\n" \o errtxt \o "\n")

\* Kernel::run after std::system returned sys
runFinish(ready, sys) ==
    IF ~readTextFile(sys.disk, PathJoin(ready.absOutdir, "output.json"), "").ok
    THEN Failed("Plugin did not produce output.json. Exit=" \o to_string(LL(sys.ec))
                  \o (IF readTextFile(sys.disk,
                                      PathJoin(ready.absOutdir, "run.err"), "").out = ""
                      THEN ""
                      ELSE "\nerr:\n"
                             \o readTextFile(sys.disk,
                                             PathJoin(ready.absOutdir, "run.err"),
                                             "").out),
                ready.ws, sys.disk, TRUE)
    ELSE Succeeded(reportOf(sys.ec,
                            readTextFile(sys.disk,
                                         PathJoin(ready.absOutdir, "run.log"), "").out,
                            readTextFile(sys.disk,
                                         PathJoin(ready.absOutdir, "run.err"), "").out),
                   readAll(sys.disk, PathJoin(ready.absOutdir, "output.json")),
                   ready.ws, sys.disk)

\* Kernel::run from the call of std::system on, for a call that reached it
runEnd(started, child) ==
    IF started.done THEN started
    ELSE runFinish(started, system(started.disk, started.absOutdir, child))

\* Kernel::run(name, bank, reg, addr, stdin_json_or_path, out_json,
\* out_report), child being what the plugin process does if it is started
run(plugins, name, bank, reg, addr, stdinArg, cfg, ws, disk, child) ==
    runEnd(runStart(plugins, name, bank, reg, addr, stdinArg, cfg, ws, disk), child)

(***************************************************************************)
(* scripted_core.hpp: saveContextFile and openCtx.                         *)
(***************************************************************************)
\* the end of saveContextFile: the text is in tmp; rename and the copy_file
\* after it both fail when a directory stands at path, and tmp is removed
saveReplace(disk, path, tmp, text) ==
    IF exists(disk, path) /\ disk[absolute(path)].kind = "dir"
    THEN [ok |-> FALSE, disk |-> MapErase(disk, absolute(tmp))]
    ELSE [ok |-> TRUE,
          disk |-> MapPut(MapErase(disk, absolute(tmp)), absolute(path), File(text))]

\* saveContextFile after its create_directories, which left made: the
\* exception of create_directories is caught, and the std::ofstream on tmp
\* must open
saveInto(made, path, tmp, text) ==
    IF made.thrown THEN [ok |-> FALSE, disk |-> made.disk]
    ELSE IF ~canWrite(made.disk, tmp) THEN [ok |-> FALSE, disk |-> made.disk]
    ELSE saveReplace(MapPut(made.disk, absolute(tmp), File(text)), path, tmp, text)

\* saveContextFile(cfg, path, b, err): what it returned and the files it left
saveContextFile(cfg, path, b, disk) ==
    saveInto(create_directories(disk, Parent(absolute(path))), path,
             path \o ".tmp", writeBankText(b, cfg))

\* what openCtx returns: ok, the Workspace and the files it left, its status
\* text, and the bank id it computed
Opened(ok, ws, disk, status, id) ==
    [ok |-> ok, ws |-> ws, disk |-> disk, status |-> status, id |-> id]

\* nameOrStem without a trailing ".txt"
stemOf(nameOrStem) ==
    IF Len(nameOrStem) > 4 /\ Suffix(nameOrStem, Len(nameOrStem) - 3) = ".txt"
    THEN SubSeq(nameOrStem, 1, Len(nameOrStem) - 4)
    ELSE nameOrStem

\* the digits of a name: a leading prefix character is dropped
tokenOf(cfg, name) ==
    IF name # "" /\ CharAt(name, 1) = cfg.prefix THEN Tail(name) ELSE name

\* ws.banks[id] = std::move(b)
withOpened(ws, id, b) == [ws EXCEPT !.banks = MapPut(ws.banks, id, b)]

\* if (b.title.empty()) b.title = stem
titled(b, stem) == IF b.title = "" THEN [b EXCEPT !.title = stem] ELSE b

\* openCtx for a file that exists and was opened: pr is what parseBankText
\* made of its text
openParsed(ws, stem, id, path, disk, pr) ==
    IF ~pr.ok THEN Opened(FALSE, ws, disk, "Parse failed: " \o pr.err, id)
    ELSE Opened(TRUE, withOpened(ws, id, titled(pr.bank, stem)), disk,
                "Opened " \o path, id)

\* openCtx for a file that exists
openFile(cfg, ws, stem, id, path, disk) ==
    IF ~canOpen(disk, path) THEN Opened(FALSE, ws, disk, "Cannot open: " \o path, id)
    ELSE openParsed(ws, stem, id, path, disk,
                    parseBankText(readAll(disk, path), cfg, EmptyBank))

\* openCtx for a bank that has no file and is not kept when the save fails
openNewStrict(ws, id, path, b, saved) ==
    IF ~saved.ok
    THEN Opened(FALSE, ws, saved.disk, "Cannot create " \o path, id)
    ELSE Opened(TRUE, withOpened(ws, id, b), saved.disk,
                "Created new context: " \o path, id)

\* openCtx for a bank that has no file: b is the new bank and saved what
\* saveContextFile did with it
openNew(ws, id, path, b, saved) ==
    IF ~saved.ok
    THEN Opened(TRUE, withOpened(ws, id, b), saved.disk,
                "Created new context (not written): " \o path, id)
    ELSE Opened(TRUE, withOpened(ws, id, b), saved.disk,
                "Created new context: " \o path, id)

\* openCtx once the id was parsed
openId(cfg, ws, stem, id, path, disk) ==
    IF exists(disk, path) THEN openFile(cfg, ws, stem, id, path, disk)
    ELSE openNew(ws, id, path, FreshBank(id, stem),
                 saveContextFile(cfg, path, FreshBank(id, stem), disk))

\* openCtx with the id parsed from the stem
openStem(cfg, ws, stem, parsed, disk) ==
    IF ~parsed.ok THEN Opened(FALSE, ws, disk, "Bad context id: " \o stem, parsed.out)
    ELSE openId(cfg, ws, stem, parsed.out, contextFileName(cfg, parsed.out), disk)

\* openCtx(cfg, ws, nameOrStem, status)
openCtx(cfg, ws, nameOrStem, disk) ==
    openStem(cfg, ws, stemOf(nameOrStem),
             parseIntBase(tokenOf(cfg, stemOf(nameOrStem)), cfg.base), disk)

\* the names of the regular files of files/ that end in ".txt"
bankFileStems(disk) ==
    {SubSeq(Filename(f), 1, Len(Filename(f)) - 4) :
        f \in {g \in DOMAIN disk : /\ Parent(g) = absolute("files")
                                   /\ disk[g].kind = "file"
                                   /\ Len(Filename(g)) >= 4
                                   /\ Suffix(Filename(g), Len(Filename(g)) - 3) = ".txt"}}

RECURSIVE preloadEach(_, _, _, _)
\* the loop of preloadAll over the directory entries that remain
preloadEach(cfg, ws, stems, disk) ==
    IF stems = <<>> THEN ws
    ELSE IF Head(stems) = "" \/ CharAt(Head(stems), 1) # cfg.prefix
              \/ ~parseIntBase(Tail(Head(stems)), cfg.base).ok
    THEN preloadEach(cfg, ws, Tail(stems), disk)
    ELSE preloadEach(cfg,
            ensureBankLoadedInWorkspace(cfg, ws,
                parseIntBase(Tail(Head(stems)), cfg.base).out, disk).ws,
            Tail(stems), disk)

\* preloadAll(cfg, ws): the entries come in the order the directory gives
preloadAll(cfg, ws, disk) == preloadEach(cfg, ws, listed(bankFileStems(disk)), disk)

(***************************************************************************)
(* scripted.cpp: the Editor.  current is the optional current context, a   *)
(* sequence holding the bank id or nothing.                                *)
(***************************************************************************)
\* ws.banks[cur].regs[reg][addr] = value; operator[] makes the bank and the
\* register that are not there
putCell(ws, cur, reg, addr, value) ==
    [ws EXCEPT !.banks = MapPut(ws.banks, cur,
        [ws.banks[cur] EXCEPT !.regs = MapPut(ws.banks[cur].regs, reg,
            MapPut(IF reg \in DOMAIN ws.banks[cur].regs
                   THEN ws.banks[cur].regs[reg] ELSE EmptyMap,
                   addr, value))])]

\* Editor::insert and Editor::insertR once the tokens are parsed
insertAt(ws, cur, reg, addr, value) ==
    IF ~reg.ok \/ ~addr.ok THEN [done |-> FALSE, ws |-> ws]
    ELSE [done |-> TRUE, ws |-> putCell(withBank(ws, cur), cur, reg.out, addr.out, value)]

\* Editor::insertR(regTok, addrTok, value)
insertR(cfg, ws, cur, regTok, addrTok, value) ==
    insertAt(ws, cur, parseIntBase(regTok, cfg.base),
             parseIntBase(addrTok, cfg.base), value)

\* Editor::insert(addrTok, value)
insert(cfg, ws, cur, addrTok, value) ==
    insertAt(ws, cur, [ok |-> TRUE, out |-> LL(1)],
             parseIntBase(addrTok, cfg.base), value)

\* the registers of a bank with register reg set to addrs
withReg(ws, cur, reg, addrs) ==
    [ws EXCEPT !.banks = MapPut(ws.banks, cur,
        [ws.banks[cur] EXCEPT !.regs = MapPut(ws.banks[cur].regs, reg, addrs)])]

\* Editor::del once the token is parsed: regs[1] is made when it is not
\* there, then the address is erased from it
delAt(ws, cur, addr) ==
    IF ~addr.ok THEN [done |-> FALSE, ws |-> ws]
    ELSE IF LL(1) \notin DOMAIN ws.banks[cur].regs
    THEN [done |-> FALSE, ws |-> withReg(ws, cur, LL(1), EmptyMap)]
    ELSE [done |-> addr.out \in DOMAIN ws.banks[cur].regs[LL(1)],
          ws |-> withReg(ws, cur, LL(1), MapErase(ws.banks[cur].regs[LL(1)], addr.out))]

\* Editor::del(addrTok)
del(cfg, ws, cur, addrTok) ==
    delAt(withBank(ws, cur), cur, parseIntBase(addrTok, cfg.base))

\* the registers of a bank without register reg
withoutReg(ws, cur, reg) ==
    [ws EXCEPT !.banks = MapPut(ws.banks, cur,
        [ws.banks[cur] EXCEPT !.regs = MapErase(ws.banks[cur].regs, reg)])]

\* Editor::delR once the tokens are parsed: a register left empty is erased
delRAt(ws, cur, reg, addr) ==
    IF ~reg.ok \/ ~addr.ok THEN [done |-> FALSE, ws |-> ws]
    ELSE IF reg.out \notin DOMAIN ws.banks[cur].regs THEN [done |-> FALSE, ws |-> ws]
    ELSE IF DOMAIN ws.banks[cur].regs[reg.out] \ {addr.out} = {}
    THEN [done |-> addr.out \in DOMAIN ws.banks[cur].regs[reg.out],
          ws |-> withoutReg(ws, cur, reg.out)]
    ELSE [done |-> addr.out \in DOMAIN ws.banks[cur].regs[reg.out],
          ws |-> withReg(ws, cur, reg.out,
                         MapErase(ws.banks[cur].regs[reg.out], addr.out))]

\* Editor::delR(regTok, addrTok)
delR(cfg, ws, cur, regTok, addrTok) ==
    delRAt(withBank(ws, cur), cur, parseIntBase(regTok, cfg.base),
           parseIntBase(addrTok, cfg.base))

\* the registers of b with every cell of tmp written over them
mergedRegs(b, tmp) ==
    [r \in DOMAIN b.regs \cup DOMAIN tmp.regs |->
        [a \in (IF r \in DOMAIN b.regs THEN DOMAIN b.regs[r] ELSE {})
                 \cup (IF r \in DOMAIN tmp.regs THEN DOMAIN tmp.regs[r] ELSE {}) |->
            IF r \in DOMAIN tmp.regs /\ a \in DOMAIN tmp.regs[r]
            THEN tmp.regs[r][a] ELSE b.regs[r][a]]]

\* the loops of Editor::readMerge, and the title
mergedBank(b, tmp) ==
    [b EXCEPT !.regs = mergedRegs(b, tmp),
              !.title = IF b.title = "" THEN tmp.title ELSE b.title]

\* Editor::readMerge once the file was read: pr is what parseBankText made
\* of its text
mergeParsed(ws, cur, pr) ==
    IF ~pr.ok THEN [done |-> FALSE, ws |-> ws]
    ELSE [done |-> TRUE,
          ws |-> [withBank(ws, cur) EXCEPT !.banks =
                     MapPut(withBank(ws, cur).banks, cur,
                            mergedBank(withBank(ws, cur).banks[cur], pr.bank))]]

\* Editor::readMerge(path)
readMerge(cfg, ws, cur, path, disk) ==
    IF ~canOpen(disk, path) THEN [done |-> FALSE, ws |-> ws]
    ELSE mergeParsed(ws, cur, parseBankText(readAll(disk, path), cfg, EmptyBank))

\* Editor::write: the bank is saved to its canonical file
write(cfg, ws, cur, disk) ==
    saveContextFile(cfg, contextFileName(cfg, cur), withBank(ws, cur).banks[cur], disk)

outResolvedName(cfg, bankId) ==
    "files/out/" \o cfg.prefix \o toBaseN(bankId, cfg.base, cfg.widthBank)
        \o ".resolved.txt"

outJsonName(cfg, bankId) ==
    "files/out/" \o cfg.prefix \o toBaseN(bankId, cfg.base, cfg.widthBank) \o ".json"

\* std::ofstream out(outp); out << txt: nothing is written when the stream
\* does not open, which it does not without the directory of outp
streamed(disk, outp, txt) ==
    IF exists(disk, Parent(absolute(outp))) /\ canWrite(disk, outp)
    THEN MapPut(disk, absolute(outp), File(txt))
    ELSE disk

(***************************************************************************)
(* Identifier round trip: the inputs and the two steps.                    *)
(***************************************************************************)
\* limb values the sampled identifiers are built from
SampleLimbs == {0, 1, 35, 36, LimbBase \div 2, LimbBase - 1}

\* non-negative long longs, up to LLONG_MAX = <<65535, 65535, 65535, 32767>>
SampleVals ==
    {<<a, b, c, d>> : a \in SampleLimbs, b \in {0, LimbBase - 1},
                      c \in {0, LimbBase - 1},
                      d \in {0, 1, LimbBase \div 2 - 1}}

Bases == 2..36

NoNum == [pc |-> "off"]
NoFmt == [pc |-> "off"]
NoCall == [op |-> "none"]
NoKernel == [plugins |-> <<>>, procs |-> 0, runs |-> 0]
\* an Editor as constructed: no current context, nothing unsaved, no command
\* read yet, and the program running
NoEditor == [current |-> <<>>, dirty |-> FALSE, cmds |-> 0, ended |-> FALSE]
EmptyWorkspace == [banks |-> EmptyMap, filenames |-> EmptyMap]

\* the program state a round trip of pure functions leaves alone
Idle ==
    /\ config = DefaultConfig
    /\ workspace = EmptyWorkspace
    /\ filesys = EmptyMap
    /\ kernel = NoKernel
    /\ last = NoCall
    /\ editor = NoEditor

InitInt ==
    /\ num \in {[pc |-> "start", v |-> v, base |-> b, width |-> w,
                 txt |-> "", res |-> [ok |-> FALSE, out |-> LL(0)]] :
                    v \in SampleVals, b \in Bases, w \in 0..MaxWidth}
    /\ fmt = NoFmt
    /\ Idle

\* render the identifier
Render ==
    /\ num.pc = "start"
    /\ num' = [num EXCEPT !.pc = "rendered",
                          !.txt = toBaseN(num.v, num.base, num.width)]
    /\ UNCHANGED <<config, workspace, filesys, kernel, last, fmt, editor>>

\* parse what was rendered
ParseBack ==
    /\ num.pc = "rendered"
    /\ num' = [num EXCEPT !.pc = "parsed",
                          !.res = parseIntBase(num.txt, num.base)]
    /\ UNCHANGED <<config, workspace, filesys, kernel, last, fmt, editor>>

NextInt == Render \/ ParseBack

SpecInt == InitInt /\ [][NextInt]_vars

\* C1: for every base in 2..36, every pad width >= 0 and every non-negative
\* long long v, parsing the rendering of v in that base succeeds and
\* returns exactly v.
C1_RoundTrip ==
    num.pc = "parsed" => (num.res.ok /\ num.res.out = num.v)

\* a value with a non-zero top limb has gone through both steps in a base
\* with letter digits and been padded
C1_Witness ==
    /\ num.pc = "parsed"
    /\ num.v = <<LimbBase - 1, LimbBase - 1, LimbBase - 1, LimbBase \div 2 - 1>>
    /\ num.base = 36
    /\ num.res.out = num.v

(***************************************************************************)
(* Identifier tokens as they are typed: the tokens tried and the call.     *)
(***************************************************************************)
\* the most characters put after the digits of a value
MaxTail == 2

\* values whose digits the tokens start with: small ones, the largest long
\* long, and values a further digit takes past 2^63 and past 2^64
TokenVals ==
    {<<a, 0, 0, d>> : a \in {0, 1, LimbBase - 1},
                      d \in {0, 1, 6554, 16384, 21846, LimbBase \div 2 - 1}} \cup
    {<<LimbBase - 1, LimbBase - 1, LimbBase - 1, LimbBase \div 2 - 1>>}

TokenBases == {2, 3, 10, 16, 36}

\* the characters put after them: digits of every base, digits of some, and
\* characters that are no digit
TailChars == {"0", "1", "9", "z", "Z", "-", " "}

\* the texts of at most MaxTail of those characters
Tails == UNION {[1..n -> TailChars] : n \in 0..MaxTail}

RECURSIVE Spelt(_)
\* the characters of t as one text
Spelt(t) == IF t = <<>> THEN "" ELSE Head(t) \o Spelt(Tail(t))

InitDigits ==
    /\ \E v \in TokenVals, b \in TokenBases, t \in Tails, lead \in BOOLEAN :
          num = [pc   |-> "token",
                 base |-> b,
                 txt  |-> (IF lead THEN toBaseN(v, b, 0) ELSE "") \o Spelt(t),
                 how  |-> "",
                 res  |-> [ok |-> FALSE, out |-> LL(0)]]
    /\ fmt = NoFmt
    /\ Idle

\* a call parseIntBase(txt, base, out)
ParseDigits ==
    /\ num.pc = "token"
    /\ \E r \in parseIntOutcomes(num.txt, num.base) :
          num' = [num EXCEPT !.pc = "tried", !.how = r.how, !.res = r.res]
    /\ UNCHANGED <<config, workspace, filesys, kernel, last, fmt, editor>>

NextDigits == ParseDigits

SpecDigits == InitDigits /\ [][NextDigits]_vars

(***************************************************************************)
(* Bank round trip: the banks tried and the two steps.                     *)
(***************************************************************************)
\* a Config with letter digits
HexConfig == Config("x", 16, 5, 2, 4)

Configs == {DefaultConfig, HexConfig}

\* the Bank holding the given cells: a function from <<register, address>>
\* (small naturals) to value; more lists registers that hold no address
BankOf(id, title, cells, more) ==
    LET regIds == {k[1] : k \in DOMAIN cells} \cup more
    IN  [id    |-> LL(id),
         title |-> title,
         regs  |-> [r \in {LL(n) : n \in regIds} |->
                      LET mine == {k \in DOMAIN cells : LL(k[1]) = r}
                      IN  [a \in {LL(k[2]) : k \in mine} |->
                             cells[CHOOSE k \in mine : LL(k[2]) = a]]]]

\* the cells a tried bank may hold, and the values put there
BankKeys == {<<1, 1>>, <<1, 10>>, <<2, 3>>}
BankVals == {"", "a b", " x", "a}"}

InitBank ==
    /\ \E keys \in SUBSET BankKeys, heading \in {<<1, "">>, <<255, "My (bank)">>},
          more \in {{}, {3}}, c \in Configs :
         \E cells \in [keys -> BankVals] :
            fmt = [pc   |-> "start",
                   bank |-> BankOf(heading[1], heading[2], cells, more),
                   cfg  |-> c,
                   txt  |-> "",
                   res  |-> ParseFail("", EmptyBank)]
    /\ num = NoNum
    /\ Idle

\* serialize the bank
Serialize ==
    /\ fmt.pc = "start"
    /\ fmt' = [fmt EXCEPT !.pc = "written",
                          !.txt = writeBankText(fmt.bank, fmt.cfg)]
    /\ UNCHANGED <<config, workspace, filesys, kernel, last, num, editor>>

\* parse what was written into a default-constructed Bank
Reparse ==
    /\ fmt.pc = "written"
    /\ fmt' = [fmt EXCEPT !.pc = "parsed",
                          !.res = parseBankText(fmt.txt, fmt.cfg, EmptyBank)]
    /\ UNCHANGED <<config, workspace, filesys, kernel, last, num, editor>>

NextBank == Serialize \/ Reparse

SpecBank == InitBank /\ [][NextBank]_vars

\* C2: for every Bank and every valid Config, parsing the serialization of
\* the Bank succeeds and yields a Bank with the same id and the same
\* (register, address) -> value mapping.
C2_RoundTrip ==
    fmt.pc = "parsed" =>
        /\ fmt.res.ok
        /\ fmt.res.bank.id = fmt.bank.id
        /\ Cells(fmt.res.bank) = Cells(fmt.bank)

\* the round trip does hold of the tried banks none of whose values holds a '}'
BraceFreeRoundTrip ==
    (fmt.pc = "parsed" /\ \A k \in DOMAIN Cells(fmt.bank) :
                              ~Contains(Cells(fmt.bank)[k], "}"))
        => /\ fmt.res.ok
           /\ fmt.res.bank.id = fmt.bank.id
           /\ Cells(fmt.res.bank) = Cells(fmt.bank)

(***************************************************************************)
(* Bank texts as a user may write them: a header and some body lines.      *)
(***************************************************************************)
\* the most body lines a tried text holds
MaxLines == 3

\* the body lines tried: address lines (tab or space indented, with and
\* without a value, two spellings of one address), register lines, a blank
\* line, lines holding a closing brace, and lines that do not parse
BodyLines ==
    {"\t0001\ta", "\t1\tb", " 0002 c", "\t0001", "\t000a\th",
     "01", "2", "0a", "", "}", "\t0003\tx}y", "zz", "\tzz\tv"}

\* the header line every tried text starts with
HeaderLine == "x00007 (typed){"

RECURSIVE Joined(_)
\* the lines, each ended by a newline
Joined(ls) == IF ls = <<>> THEN "" ELSE Head(ls) \o "\n" \o Joined(Tail(ls))

InitParse ==
    /\ \E n \in 0..MaxLines, c \in Configs :
         \E body \in [1..n -> BodyLines] :
            fmt = [pc   |-> "typed",
                   body |-> body,
                   cfg  |-> c,
                   txt  |-> Joined(<<HeaderLine>> \o body),
                   res  |-> ParseFail("", EmptyBank)]
    /\ num = NoNum
    /\ Idle

\* parse the text into a default-constructed Bank
ParseTyped ==
    /\ fmt.pc = "typed"
    /\ fmt' = [fmt EXCEPT !.pc = "read",
                          !.res = parseBankText(fmt.txt, fmt.cfg, EmptyBank)]
    /\ UNCHANGED <<config, workspace, filesys, kernel, last, num, editor>>

NextParse == ParseTyped

SpecParse == InitParse /\ [][NextParse]_vars

(***************************************************************************)
(* A session on bank 1: the Workspace after `:open x00001` and a series of *)
(* `:ins` / `:insr`, the files on disk, and the calls made.                *)
(***************************************************************************)
\* the cells of bank 1
MainCells ==
    (<<1, 1>>  :> "r1.0001") @@
    (<<1, 2>>  :> "x00001.01.0002") @@
    (<<1, 3>>  :> "x00001.0003") @@
    (<<1, 4>>  :> "1.1.4") @@
    (<<1, 5>>  :> "r1.6") @@
    (<<1, 6>>  :> "x1.5") @@
    (<<1, 7>>  :> "7") @@
    (<<1, 8>>  :> "see r02.0003") @@
    (<<1, 9>>  :> "r1.8, r1.8") @@
    (<<1, 10>> :> "ten") @@
    (<<1, 11>> :> "1.2.99") @@
    (<<1, 12>> :> "x00002.01.0001") @@
    (<<1, 13>> :> "1.1.5") @@
    (<<2, 3>>  :> "World")

\* the cells of bank 2, which is on disk only
AuxCells ==
    (<<1, 1>> :> "Moon r1.2") @@
    (<<1, 2>> :> "Sea") @@
    (<<2, 9>> :> "99999999999999999999.1.1")

\* what was saved of bank 1 before the cells above were inserted
SavedCells == (<<1, 1>> :> "saved")

MainBank  == BankOf(1, "main", MainCells, {})
AuxBank   == BankOf(2, "aux", AuxCells, {})
SavedBank == BankOf(1, "main", SavedCells, {})

\* openCtx puts the bank in ws.banks and leaves ws.filenames alone
OpenedWorkspace ==
    [banks |-> MapPut(EmptyMap, LL(1), MainBank), filenames |-> EmptyMap]

\* the directory files/ of a Config: two bank files, a bank file that does
\* not parse, a text file and a file that cannot be opened
FilesOf(cfg) ==
    (absolute("files") :> Directory) @@
    (absolute(contextFileName(cfg, LL(1))) :> File(writeBankText(SavedBank, cfg))) @@
    (absolute(contextFileName(cfg, LL(2))) :> File(writeBankText(AuxBank, cfg))) @@
    (absolute(contextFileName(cfg, LL(4))) :> File("x00004 (no brace)\n")) @@
    (absolute("files/inc.txt") :> File("included r2.3")) @@
    (absolute("files/locked") :> Unreadable)

\* texts handed to resolve besides the values of the cells
FreeInputs ==
    {"a r2.0099 b", "x00001.02.0099", "x1.2.99", "x1.99", "x00003.01.0001",
     "x00004.01.0001", "r1.7.3.4", "see x00001.0007.", "[r1.8] x00001.01.0008 1.1.8",
     "r1.a", "r02.0003 r02.0003", "r2.3 x00001.02.0003 1.2.3", "r1.11 1.1.11",
     "x00002.01.0001 x00002.01.0001", "rzz.1", "xzz.1.1", "x1.zz.1", "xzz.1",
     "x00002.02.0009", "@file(inc.txt) @file(nope) @file( locked )", "server.log",
     "r1.4"}

\* the values of the cells of the loaded banks
CellTexts(ws) ==
    UNION {{Cells(ws.banks[b])[k] : k \in DOMAIN Cells(ws.banks[b])} :
              b \in DOMAIN ws.banks}

\* bank ids handed to the exports: the loaded banks and one that is not
ExportIds(ws) == DOMAIN ws.banks \cup {LL(3)}

InitResolve ==
    /\ config \in Configs
    /\ workspace = OpenedWorkspace
    /\ filesys = FilesOf(config)
    /\ kernel = NoKernel
    /\ last = NoCall
    /\ editor = NoEditor
    /\ num = NoNum
    /\ fmt = NoFmt

\* a call R.resolve(input, currentBank, visited) with an empty visited set
Resolve(input, currentBank) ==
    /\ \E r \in {resolve(input, currentBank, {}, config, workspace, filesys)} :
          /\ workspace' = r.ws
          /\ last' = [op      |-> "resolve",
                      input   |-> input,
                      bank    |-> currentBank,
                      visited |-> {},
                      pre     |-> workspace,
                      ret     |-> [s       |-> IF r.thrown THEN "" ELSE r.s,
                                   thrown  |-> r.thrown,
                                   visited |-> r.visited]]
    /\ UNCHANGED <<config, filesys, kernel, num, fmt, editor>>

\* a call resolveBankToText(cfg, ws, bankId)
ResolveBankToText(bankId) ==
    /\ \E r \in {resolveBankToText(config, workspace, bankId, filesys)} :
          /\ workspace' = r.ws
          /\ last' = [op   |-> "resolveBankToText",
                      bank |-> bankId,
                      pre  |-> workspace,
                      ret  |-> [s |-> IF r.thrown THEN "" ELSE r.s,
                                thrown |-> r.thrown]]
    /\ UNCHANGED <<config, filesys, kernel, num, fmt, editor>>

\* a call exportBankToJSON(cfg, ws, bankId)
ExportBankToJSON(bankId) ==
    /\ \E r \in {exportBankToJSON(config, workspace, bankId, filesys)} :
          /\ workspace' = r.ws
          /\ last' = [op   |-> "exportBankToJSON",
                      bank |-> bankId,
                      pre  |-> workspace,
                      ret  |-> [s |-> IF r.thrown THEN "" ELSE r.s,
                                thrown |-> r.thrown]]
    /\ UNCHANGED <<config, filesys, kernel, num, fmt, editor>>

NextResolve ==
    \/ \E input \in CellTexts(workspace) \cup FreeInputs : Resolve(input, LL(1))
    \/ \E bankId \in ExportIds(workspace) : ResolveBankToText(bankId)
    \/ \E bankId \in ExportIds(workspace) : ExportBankToJSON(bankId)

SpecResolve == InitResolve /\ [][NextResolve]_vars

(***************************************************************************)
(* How a text reads: its words (the runs of letters, digits and '.') and   *)
(* the gaps between them, and the reference a word spells.                 *)
(***************************************************************************)
isword(c) == isalnum(c) \/ c = "."

RECURSIVE wordRunEnd(_, _)
wordRunEnd(s, i) == IF isword(CharAt(s, i)) THEN wordRunEnd(s, i + 1) ELSE i - 1

RECURSIVE gapRunEnd(_, _)
gapRunEnd(s, i) ==
    IF i <= Len(s) /\ ~isword(CharAt(s, i)) THEN gapRunEnd(s, i + 1) ELSE i - 1

RECURSIVE Pieces(_)
\* <<gap, word, gap, ..., word, gap>>: the gaps may be empty at the two ends
Pieces(s) ==
    LET g == gapRunEnd(s, 1)
        w == wordRunEnd(s, g + 1)
    IN  IF w = g THEN <<s>>
        ELSE <<SubSeq(s, 1, g), SubSeq(s, g + 1, w)>> \o Pieces(Suffix(s, w + 1))

WordAt(ps) == {i \in 1..Len(ps) : i % 2 = 0}
GapAt(ps)  == {i \in 1..Len(ps) : i % 2 = 1}

RECURSIVE Concat(_)
Concat(seq) == IF seq = <<>> THEN "" ELSE Head(seq) \o Concat(Tail(seq))

RECURSIVE SplitDots(_)
SplitDots(w) ==
    LET d == FindChar(w, ".", 1)
    IN  IF d = 0 THEN <<w>>
        ELSE <<SubSeq(w, 1, d - 1)>> \o SplitDots(Suffix(w, d + 1))

AllAlnum(cs) == \A i \in 1..Len(cs) : cs[i] # "" /\ \A j \in 1..Len(cs[i]) : isalnum(CharAt(cs[i], j))
AllDigit(cs) == \A i \in 1..Len(cs) : cs[i] # "" /\ \A j \in 1..Len(cs[i]) : isdigit(CharAt(cs[i], j))

\* sub occurs in s
Occurs(sub, s) ==
    \E i \in 1..(Len(s) - Len(sub) + 1) : SubSeq(s, i, i + Len(sub) - 1) = sub

HasMarker(s) ==
    Occurs("[Missing ", s) \/ Occurs("[Circular Ref: ", s) \/ Occurs("[BadRef ", s)

NoRef == [shape |-> "none", ref |-> FALSE, bad |-> FALSE]
Known(v) == [ok |-> TRUE, out |-> v]

\* a token of a base-aware syntax: a reference when every component parses
Spelled(shape, b, r, a) ==
    [shape |-> shape, ref |-> b.ok /\ r.ok /\ a.ok, bad |-> ~(b.ok /\ r.ok /\ a.ok),
     bank |-> b.out, reg |-> r.out, addr |-> a.out]

\* a numeric triad: a reference when every component fits a long long
Numbered(b, r, a) ==
    [shape |-> "tri", ref |-> ~(b.thrown \/ r.thrown \/ a.thrown), bad |-> FALSE,
     bank |-> b.out, reg |-> r.out, addr |-> a.out]

\* the word w read as one whole token of the four syntaxes, in bank cur
ReadToken(w, cfg, cur) ==
    IF w = "" THEN NoRef
    ELSE LET rest == SplitDots(Tail(w))
             all  == SplitDots(w)
         IN  IF CharAt(w, 1) = "r" /\ Len(rest) = 2 /\ AllAlnum(rest)
             THEN Spelled("same", Known(cur), parseIntBase(rest[1], cfg.base),
                          parseIntBase(rest[2], cfg.base))
             ELSE IF CharAt(w, 1) = cfg.prefix /\ Len(rest) = 3 /\ AllAlnum(rest)
             THEN Spelled("pref3", parseIntBase(rest[1], cfg.base),
                          parseIntBase(rest[2], cfg.base), parseIntBase(rest[3], cfg.base))
             ELSE IF CharAt(w, 1) = cfg.prefix /\ Len(rest) = 2 /\ AllAlnum(rest)
             THEN Spelled("two", parseIntBase(rest[1], cfg.base), Known(LL(1)),
                          parseIntBase(rest[2], cfg.base))
             ELSE IF Len(all) = 3 /\ AllDigit(all)
             THEN Numbered(stoll(all[1]), stoll(all[2]), stoll(all[3]))
             ELSE NoRef

\* the cell a reference names, looked up in ws
Target(t, ws) == findCell(ws, t.bank, t.reg, t.addr)

\* a resolve call has just returned
Resolved == last.op = "resolve"

\* the text the call must return when every word i of ps is replaced by
\* put[i] and the gaps stay
Rebuilt(ps, put) == Concat([i \in 1..Len(ps) |-> IF i % 2 = 1 THEN ps[i] ELSE put[i]])

\* every gap is free of '@' (no file inclusion) and every word either has
\* no '.' (so no syntax matches it) or satisfies Is
PlainOr(ps, Is(_)) ==
    /\ \A i \in GapAt(ps) : ~Contains(ps[i], "@")
    /\ \A i \in WordAt(ps) : ~Contains(ps[i], ".") \/ Is(ps[i])
    /\ \E i \in WordAt(ps) : Is(ps[i])

\* C3: resolving a cell whose entire value is one reference token to that
\* same cell, in any of the reference syntaxes, yields exactly
\* [Circular Ref: <token>].
C3_SelfReference ==
    Resolved =>
        \A r \in DOMAIN last.pre.banks[last.bank].regs :
            \A a \in DOMAIN last.pre.banks[last.bank].regs[r] :
                LET t == ReadToken(last.input, config, last.bank)
                IN  (/\ last.pre.banks[last.bank].regs[r][a] = last.input
                     /\ t.ref
                     /\ <<t.bank, t.reg, t.addr>> = <<last.bank, r, a>>)
                    => /\ ~last.ret.thrown
                       /\ last.ret.s = "[Circular Ref: " \o last.input \o "]"

\* the word is a well-formed reference whose target does not exist
MissingRef(w) ==
    /\ ReadToken(w, config, last.bank).ref
    /\ ~Target(ReadToken(w, config, last.bank), workspace).found

\* C4: a well-formed reference token, in any syntax, whose target register
\* or address does not exist or whose bank cannot be loaded, is replaced in
\* the output of resolve by exactly [Missing <token>], the surrounding text
\* unchanged.
C4_MissingMarker ==
    Resolved =>
        LET ps == Pieces(last.input)
        IN  PlainOr(ps, MissingRef) =>
                /\ ~last.ret.thrown
                /\ last.ret.s =
                       Rebuilt(ps, [i \in 1..Len(ps) |->
                                       IF MissingRef(ps[i])
                                       THEN "[Missing " \o ps[i] \o "]" ELSE ps[i]])

\* C8: resolve terminates and returns a string without raising an error,
\* for every Workspace and every input.
C8_NeverRaises == Resolved => ~last.ret.thrown

\* the word is a token of a base-aware syntax with a component that does
\* not parse in the configured base
BadToken(w) == ReadToken(w, config, last.bank).bad

\* C9: a token of a base-aware syntax (same-bank, prefixed triad, two-part)
\* with a component that fails to parse in the configured base is replaced
\* in the output by [BadRef <token>].
C9_BadRefMarker ==
    Resolved =>
        LET ps == Pieces(last.input)
        IN  PlainOr(ps, BadToken) =>
                /\ ~last.ret.thrown
                /\ last.ret.s =
                       Rebuilt(ps, [i \in 1..Len(ps) |->
                                       IF BadToken(ps[i])
                                       THEN "[BadRef " \o ps[i] \o "]" ELSE ps[i]])

\* text that no reference syntax matches anywhere, and that includes no file
Literal(text) ==
    /\ ~Contains(text, "@")
    /\ \A pass \in {"same", "pref3", "two", "tri"} :
           ~nextToken(pass, text, 1, last.bank, config).found

\* C5 as stated: for an acyclic chain that ends in literal text, resolving
\* A's value yields A's text with each reference token replaced by the
\* resolved text of its target, no token and no marker remaining.  Here A's
\* text is a token followed by literal text lit, and the token's target
\* holds literal text.
C5_ChainResolves ==
    Resolved =>
        \A k \in 1..Len(last.input) :
            LET tok == SubSeq(last.input, 1, k)
                lit == Suffix(last.input, k + 1)
                t   == ReadToken(tok, config, last.bank)
            IN  (/\ ~isalnum(CharAt(lit, 1))
                 /\ Literal(lit)
                 /\ t.ref
                 /\ Target(t, workspace).found
                 /\ Literal(Target(t, workspace).out))
                => /\ ~last.ret.thrown
                   /\ last.ret.s = Target(t, workspace).out \o lit
                   /\ ~HasMarker(last.ret.s)

\* the longest chain of references followed from a text
MaxChain == 4

\* the order of the syntaxes in resolve
PassOf(shape) == CHOOSE i \in 1..Len(Passes) : Passes[i] = shape

\* no syntax tried before the word's own matches any part of the word
EarlierSilent(w, shape, cfg, cur) ==
    \A i \in 1..(PassOf(shape) - 1) : ~nextToken(Passes[i], w, 1, cur, cfg).found

RECURSIVE Clean(_, _, _, _, _)
\* every reference token of the text stands alone as a word, names an
\* existing cell whose value is Clean in turn (within hops references), the
\* other words hold no '.', and no gap holds an '@'
Clean(text, cur, cfg, ws, hops) ==
    LET ps == Pieces(text)
    IN  /\ \A i \in GapAt(ps) : ~Contains(ps[i], "@")
        /\ \A i \in WordAt(ps) :
              \/ ~Contains(ps[i], ".")
              \/ LET t == ReadToken(ps[i], cfg, cur)
                 IN  /\ hops > 0
                     /\ t.ref
                     /\ EarlierSilent(ps[i], t.shape, cfg, cur)
                     /\ Target(t, ws).found
                     /\ Clean(Target(t, ws).out, t.bank, cfg, ws, hops - 1)

RECURSIVE Ideal(_, _, _, _)
\* a Clean text with every reference token replaced by the Ideal of the
\* value of its target
Ideal(text, cur, cfg, ws) ==
    LET ps == Pieces(text)
    IN  Rebuilt(ps, [i \in 1..Len(ps) |->
                       IF i % 2 = 1 \/ ~Contains(ps[i], ".") THEN ps[i]
                       ELSE Ideal(Target(ReadToken(ps[i], cfg, cur), ws).out,
                                  ReadToken(ps[i], cfg, cur).bank, cfg, ws)])

\* C5 (amended): when, in A's value and in every value along its chains,
\* each reference token stands alone between characters that are not
\* letters, digits or '.', is matched by no earlier syntax, and the rest of
\* the text holds no '.' and no '@', resolving A's value yields A's text
\* with each token replaced by the resolved text of its target, and no
\* token and no marker remains.
C5_CleanChainResolves ==
    (Resolved /\ Clean(last.input, last.bank, config, workspace, MaxChain)) =>
        /\ ~last.ret.thrown
        /\ last.ret.s = Ideal(last.input, last.bank, config, workspace)
        /\ ~HasMarker(last.ret.s)

\* a chain of two references, in three syntaxes, was resolved
C5_Witness ==
    /\ Resolved
    /\ last.input = "[r1.8] x00001.01.0008 1.1.8"
    /\ Clean(last.input, last.bank, config, workspace, MaxChain)
    /\ last.ret.s = "[see World] see World see World"

\* the word is a reference to an existing cell
LiveRef(w) ==
    /\ ReadToken(w, config, last.bank).ref
    /\ Target(ReadToken(w, config, last.bank), workspace).found

\* the cell the word names
CellOf(w) ==
    LET t == ReadToken(w, config, last.bank) IN <<t.bank, t.reg, t.addr>>

\* the string holds two or more references, every one to the same cell
SameTargetTwice(ps) ==
    /\ Len(ps) >= 5
    /\ \A i \in GapAt(ps) : ~Contains(ps[i], "@")
    /\ \A i \in WordAt(ps) : LiveRef(ps[i]) /\ CellOf(ps[i]) = CellOf(ps[2])

\* C6 as stated: when one string holds two or more references to the same
\* existing cell, every occurrence is replaced by the same resolved text,
\* none by [Circular Ref: ...], and the caller's visited set is unchanged.
C6_SameText ==
    Resolved =>
        LET ps == Pieces(last.input)
        IN  SameTargetTwice(ps) =>
                /\ ~last.ret.thrown
                /\ last.ret.visited = last.visited
                /\ \E k \in 0..Len(last.ret.s) :
                      LET X == SubSeq(last.ret.s, Len(ps[1]) + 1, Len(ps[1]) + k)
                      IN  /\ last.ret.s = Rebuilt(ps, [i \in 1..Len(ps) |-> X])
                          /\ \A i \in WordAt(ps) :
                                X # "[Circular Ref: " \o ps[i] \o "]"

\* the string holds two or more references to one existing cell, among
\* words that are references to existing cells or hold no '.'
TargetTwice(ps) ==
    /\ \A i \in GapAt(ps) : ~Contains(ps[i], "@")
    /\ \A i \in WordAt(ps) : ~Contains(ps[i], ".") \/ LiveRef(ps[i])
    /\ \E i, j \in WordAt(ps) :
          /\ i # j
          /\ LiveRef(ps[i]) /\ LiveRef(ps[j])
          /\ CellOf(ps[i]) = CellOf(ps[j])

\* resolving the word alone, in the same bank with the same visited set
Alone(w) == resolve(w, last.bank, last.visited, config, last.pre, filesys)

\* C6 (amended): when one string holds two or more references to the same
\* existing cell, every occurrence is replaced by the text that resolving
\* that occurrence alone yields (so occurrences spelled alike get the same
\* text, and none becomes [Circular Ref: ...] on account of another), and
\* the caller's visited set is unchanged.
C6_BranchLocal ==
    Resolved =>
        LET ps == Pieces(last.input)
        IN  TargetTwice(ps) =>
                /\ last.ret.visited = last.visited
                /\ last.ret.thrown = (\E i \in WordAt(ps) : Alone(ps[i]).thrown)
                /\ ~last.ret.thrown =>
                       last.ret.s = Rebuilt(ps, [i \in 1..Len(ps) |-> Alone(ps[i]).s])

\* two references to one cell, spelled alike, were both expanded
C6_Witness ==
    /\ Resolved
    /\ last.input = "r1.8, r1.8"
    /\ TargetTwice(Pieces(last.input))
    /\ last.ret.s = "see World, see World"

\* one of the three resolving calls has just returned
Called == last.op \in {"resolve", "resolveBankToText", "exportBankToJSON"}

\* C7 as stated: for every call of resolve, resolveBankToText or
\* exportBankToJSON, the Workspace (the loaded bank ids, every bank's title
\* and cells, the filenames map) is identical before and after the call.
C7_PureRead == Called => workspace = last.pre

\* C7 (amended): every bank loaded before the call has the same title and
\* cells after it, and every entry of the filenames map is unchanged; the
\* call may add banks (loaded on demand, or created empty by an export) and
\* filenames entries, and changes nothing else.
C7_OnlyAdds ==
    Called =>
        /\ \A b \in DOMAIN last.pre.banks :
              b \in DOMAIN workspace.banks /\ workspace.banks[b] = last.pre.banks[b]
        /\ \A b \in DOMAIN last.pre.filenames :
              b \in DOMAIN workspace.filenames
                  /\ workspace.filenames[b] = last.pre.filenames[b]

\* a resolve call that followed references into bank 1, already loaded, and
\* into bank 2, which it loaded from its file
C7_Witness ==
    /\ Resolved
    /\ last.input = "x00002.01.0001 x00002.01.0001"
    /\ LL(2) \notin DOMAIN last.pre.banks
    /\ LL(2) \in DOMAIN workspace.banks
    /\ workspace.banks[LL(1)] = MainBank

(***************************************************************************)
(* Plugin runs: the plugins directory, the calls and the plugin processes. *)
(***************************************************************************)
MaxRuns == 2

\* a plugin directory with its manifest and, when entry names one, the
\* entry file
PluginDir(name, manifest, entry) ==
    (absolute("plugins/" \o name) :> Directory) @@
    (absolute("plugins/" \o name \o "/plugin.json") :> File(manifest)) @@
    (IF entry = "" THEN EmptyMap
     ELSE (absolute("plugins/" \o name \o "/" \o entry) :> File("#!/bin/sh\n")))

\* plugins/: echo is complete, the entry file of ghost is not there, mute
\* names no entry for this platform, anon has no name, bare no manifest
PluginFiles ==
    (absolute("plugins") :> Directory) @@
    PluginDir("echo", "{\"name\": \"echo\", \"entry_win\": \"run.bat\", \"entry_lin\": \"run.sh\"}", "run.sh") @@
    PluginDir("ghost", "{\"name\": \"ghost\", \"entry_win\": \"run.bat\", \"entry_lin\": \"run.sh\"}", "run.bat") @@
    PluginDir("mute", "{\"name\": \"mute\", \"entry_win\": \"run.bat\"}", "run.bat") @@
    PluginDir("anon", "{\"entry_lin\": \"run.sh\"}", "run.sh") @@
    (absolute("plugins/bare") :> Directory) @@
    (absolute("plugins/README") :> File("plugins live here\n"))

\* a plugin put into plugins/ while the program runs
LatePlugin ==
    PluginDir("late", "{\"name\": \"late\", \"entry_lin\": \"run.sh\"}", "run.sh")

\* the cell whose output directories cannot be made: a file stands where the
\* directory r<reg>a<addr> would be
BlockedCell == <<1, 1, 10>>

BlockedPath(cfg) ==
    Parent(absolute(outdirOf(cfg, LL(BlockedCell[1]), LL(BlockedCell[2]),
                             LL(BlockedCell[3]), "echo")))

OutFiles(cfg) ==
    [a \in Ancestors(BlockedPath(cfg)) |->
        IF a = BlockedPath(cfg) THEN File("stale\n") ELSE Directory]

KernelFiles(cfg) ==
    FilesOf(cfg) @@ PluginFiles @@ OutFiles(cfg)
        @@ (absolute("files/in.json") :> File("{\"n\": 1}"))

\* the names, cells and stdin arguments handed to run
RunNames == {"echo", "ghost", "mute", "late"}
RunCells == {<<1, 2, 3>>, <<2, 1, 1>>, <<2, 2, 9>>, <<1, 9, 9>>, BlockedCell}
RunStdins == {"{}", "files/in.json"}

\* what the plugin processes do
ChildOutcomes ==
    {Child(0, TRUE, "{\"ok\": true}", "done\n", ""),
     Child(1, FALSE, "", "", "boom\n"),
     Child(0, FALSE, "", "", "")}

NoChild == Child(0, FALSE, "", "", "")

\* Kernel K(cfg, ws): the constructor scans plugins/
InitKernel ==
    /\ config \in Configs
    /\ workspace = OpenedWorkspace
    /\ filesys = KernelFiles(config)
    /\ kernel = [plugins |-> discoverPlugins(filesys, "plugins"),
                 procs |-> 0, runs |-> 0]
    /\ last = NoCall
    /\ editor = NoEditor
    /\ num = NoNum
    /\ fmt = NoFmt

\* a call K.run(name, bank, reg, addr, stdinArg, out_json, report)
Run(name, bank, reg, addr, stdinArg) ==
    /\ kernel.runs < MaxRuns
    /\ \E started \in {runStart(kernel.plugins, name, bank, reg, addr, stdinArg,
                                config, workspace, filesys)} :
       \E child \in (IF started.done THEN {NoChild} ELSE ChildOutcomes) :
       \E r \in {runEnd(started, child)} :
          /\ workspace' = r.ws
          /\ filesys' = r.disk
          /\ kernel' = [kernel EXCEPT !.runs = @ + 1,
                                      !.procs = IF r.child THEN @ + 1 ELSE @]
          /\ last' = [op    |-> "run",
                      name  |-> name,
                      bank  |-> bank,
                      reg   |-> reg,
                      addr  |-> addr,
                      stdin |-> stdinArg,
                      pre   |-> workspace,
                      disk  |-> filesys,
                      procs |-> kernel.procs,
                      child |-> child,
                      ret   |-> [ok     |-> r.ok,
                                 thrown |-> r.thrown,
                                 report |-> r.report,
                                 json   |-> r.json]]
    /\ UNCHANGED <<config, num, fmt, editor>>

\* K.refresh()
Refresh ==
    /\ kernel' = [kernel EXCEPT !.plugins = discoverPlugins(filesys, "plugins")]
    /\ last' = [op |-> "refresh"]
    /\ UNCHANGED <<config, workspace, filesys, num, fmt, editor>>

\* a plugin is put into plugins/ from outside the program
Install ==
    /\ ~exists(filesys, "plugins/late")
    /\ filesys' = filesys @@ LatePlugin
    /\ last' = [op |-> "install"]
    /\ UNCHANGED <<config, workspace, kernel, num, fmt, editor>>

NextKernel ==
    \/ \E name \in RunNames, cell \in RunCells, stdinArg \in RunStdins :
          Run(name, LL(cell[1]), LL(cell[2]), LL(cell[3]), stdinArg)
    \/ Refresh
    \/ Install

SpecKernel == InitKernel /\ [][NextKernel]_vars

(***************************************************************************)
(* The Editor: its files and its commands.                                 *)
(***************************************************************************)
\* commands read in one session
MaxCmds == 3

\* bank files that parseBankText rejects: a header without parentheses, no
\* brace after the header, a register line that is no number, an address
\* that is no number, and a bank id that is no number; the body of the last
\* three holds a good line before the bad one
BadTexts ==
    {"x00004 bad{\n\t0001\tgood\n}\n",
     "x00004 (bad)\n\t0001\tgood\n",
     "x00004 (bad){\n\t0001\tgood\nzz\n\t0002\tlost\n}\n",
     "x00004 (bad){\n\t0001\tgood\n\tzz\tlost\n}\n",
     "xzz (bad){\n\t0001\tgood\n}\n"}

EditorMain == BankOf(1, "main", <<1, 1>> :> "x00002.01.0001 and x00004.01.0001", {})
EditorAux  == BankOf(2, "", <<1, 1>> :> "Sea", {})
EditorMore == BankOf(9, "more", (<<1, 1>> :> "merged") @@ (<<2, 5>> :> "r2.5"), {})

\* files/ as the Editor finds it: two bank files, a bank file that does not
\* parse, a directory where the temporary file of bank 3 would be written,
\* two files to merge, and a copy of the second of them under the name of
\* bank 6's file (its header still names bank 9)
EditorFiles(cfg, bad) ==
    (absolute("files") :> Directory) @@
    (absolute("files/out") :> Directory) @@
    (absolute(contextFileName(cfg, LL(1))) :> File(writeBankText(EditorMain, cfg))) @@
    (absolute(contextFileName(cfg, LL(2))) :> File(writeBankText(EditorAux, cfg))) @@
    (absolute(contextFileName(cfg, LL(4))) :> File(bad)) @@
    (absolute(contextFileName(cfg, LL(3)) \o ".tmp") :> Directory) @@
    (absolute("files/bad.txt") :> File(bad)) @@
    (absolute("files/more.txt") :> File(writeBankText(EditorMore, cfg))) @@
    (absolute(contextFileName(cfg, LL(6))) :> File(writeBankText(EditorMore, cfg)))

OpenNames   == {"x00001", "x00002.txt", "x00003", "x00004", "5"}
SwitchNames == {"x00003", "x00004", "2", "x00006"}
MergePaths  == {"files/bad.txt", "files/more.txt"}

\* the values an uninitialized long long is read as
UninitIds == {LL(1), LL(7)}

InitEditor ==
    /\ config = DefaultConfig
    /\ workspace = EmptyWorkspace
    /\ \E bad \in BadTexts : filesys = EditorFiles(config, bad)
    /\ kernel = NoKernel
    /\ last = NoCall
    /\ editor = NoEditor
    /\ num = NoNum
    /\ fmt = NoFmt

\* the REPL reads another command
Reading == editor.cmds < MaxCmds /\ ~editor.ended

\* ensureCurrent()
HasCurrent == editor.current # <<>>

\* the Editor after a command that set current to cur and dirty to d
EditorAfter(cur, d) ==
    [editor EXCEPT !.current = cur, !.dirty = d, !.cmds = @ + 1]

\* what a command was given and what it found
Cmd(op, arg, ok) ==
    [op |-> op, arg |-> arg, pre |-> workspace, disk |-> filesys,
     cur |-> editor.current, ok |-> ok]

\* :open <ctx>: long long id is read without a value when parseIntBase
\* rejects the token that still ends in ".txt"
openCurrent(cfg, current, name, ok, parsed) ==
    IF ~ok THEN {current}
    ELSE IF parsed.ok THEN {<<parsed.out>>}
    ELSE {<<id>> : id \in UninitIds}

Open(name) ==
    /\ Reading
    /\ \E r \in {openCtx(config, workspace, name, filesys)} :
       \E cur \in openCurrent(config, editor.current, name, r.ok,
                              parseIntBase(tokenOf(config, name), config.base)) :
          /\ workspace' = r.ws
          /\ filesys' = r.disk
          /\ editor' = EditorAfter(cur, editor.dirty)
          /\ last' = Cmd("open", name, r.ok) @@ [id |-> r.id, status |-> r.status]
    /\ UNCHANGED <<config, kernel, num, fmt>>

\* :switch <ctx> once the id was parsed: the bank is opened when it is not
\* loaded, and becomes current unless that fails
switched(ws, disk, current, id, r) ==
    IF id \in DOMAIN ws.banks THEN [ok |-> TRUE, ws |-> ws, disk |-> disk, cur |-> <<id>>]
    ELSE IF ~r.ok THEN [ok |-> FALSE, ws |-> r.ws, disk |-> r.disk, cur |-> current]
    ELSE [ok |-> TRUE, ws |-> r.ws, disk |-> r.disk, cur |-> <<id>>]

\* :switch <ctx>
switch(cfg, ws, disk, current, name, parsed) ==
    IF ~parsed.ok THEN [ok |-> FALSE, ws |-> ws, disk |-> disk, cur |-> current]
    ELSE switched(ws, disk, current, parsed.out, openCtx(cfg, ws, name, disk))

Switch(name) ==
    /\ Reading
    /\ \E r \in {switch(config, workspace, filesys, editor.current, stemOf(name),
                        parseIntBase(tokenOf(config, stemOf(name)), config.base))} :
          /\ workspace' = r.ws
          /\ filesys' = r.disk
          /\ editor' = EditorAfter(r.cur, editor.dirty)
          /\ last' = Cmd("switch", name, r.ok)
    /\ UNCHANGED <<config, kernel, num, fmt>>

\* a command that edits the current bank: r is what it did
Edited(op, arg, r) ==
    /\ workspace' = r.ws
    /\ editor' = EditorAfter(editor.current, editor.dirty \/ r.done)
    /\ last' = Cmd(op, arg, r.done)
    /\ UNCHANGED <<config, filesys, kernel, num, fmt>>

\* a command that needs a current context and has none
NoCurrent(op, arg) ==
    /\ ~HasCurrent
    /\ editor' = EditorAfter(editor.current, editor.dirty)
    /\ last' = Cmd(op, arg, FALSE)
    /\ UNCHANGED <<config, workspace, filesys, kernel, num, fmt>>

\* :ins <addr> <value>
Insert(addrTok, value) ==
    /\ Reading
    /\ \/ NoCurrent("ins", <<addrTok, value>>)
       \/ /\ HasCurrent
          /\ Edited("ins", <<addrTok, value>>,
                    insert(config, workspace, editor.current[1], addrTok, value))

\* :insr <reg> <addr> <value>
InsertR(regTok, addrTok, value) ==
    /\ Reading
    /\ \/ NoCurrent("insr", <<regTok, addrTok, value>>)
       \/ /\ HasCurrent
          /\ Edited("insr", <<regTok, addrTok, value>>,
                    insertR(config, workspace, editor.current[1], regTok, addrTok, value))

\* :del <addr>
Del(addrTok) ==
    /\ Reading
    /\ \/ NoCurrent("del", addrTok)
       \/ /\ HasCurrent
          /\ Edited("del", addrTok, del(config, workspace, editor.current[1], addrTok))

\* :delr <reg> <addr>
DelR(regTok, addrTok) ==
    /\ Reading
    /\ \/ NoCurrent("delr", <<regTok, addrTok>>)
       \/ /\ HasCurrent
          /\ Edited("delr", <<regTok, addrTok>>,
                    delR(config, workspace, editor.current[1], regTok, addrTok))

\* :r <path>
ReadMerge(path) ==
    /\ Reading
    /\ \/ NoCurrent("r", path)
       \/ /\ HasCurrent
          /\ Edited("r", path,
                    readMerge(config, workspace, editor.current[1], path, filesys))

\* :w
Write ==
    /\ Reading
    /\ \/ NoCurrent("w", "")
       \/ /\ HasCurrent
          /\ \E r \in {write(config, workspace, editor.current[1], filesys)} :
                /\ workspace' = withBank(workspace, editor.current[1])
                /\ filesys' = r.disk
                /\ editor' = EditorAfter(editor.current, editor.dirty /\ ~r.ok)
                /\ last' = Cmd("w", "", r.ok)
          /\ UNCHANGED <<config, kernel, num, fmt>>

\* :preload
Preload ==
    /\ Reading
    /\ workspace' = preloadAll(config, workspace, filesys)
    /\ editor' = EditorAfter(editor.current, editor.dirty)
    /\ last' = Cmd("preload", "", TRUE)
    /\ UNCHANGED <<config, filesys, kernel, num, fmt>>

\* a command that writes an export r of the current bank to outp; an
\* exception of the resolver is caught nowhere and ends the program
Exported(op, r, outp) ==
    /\ workspace' = r.ws
    /\ filesys' = IF r.thrown THEN filesys ELSE streamed(filesys, outp, r.s)
    /\ editor' = [EditorAfter(editor.current, editor.dirty) EXCEPT !.ended = r.thrown]
    /\ last' = Cmd(op, "", ~r.thrown)
    /\ UNCHANGED <<config, kernel, num, fmt>>

\* :resolve
ResolveOut ==
    /\ Reading
    /\ \/ NoCurrent("resolve", "")
       \/ /\ HasCurrent
          /\ Exported("resolve",
                      resolveBankToText(config, workspace, editor.current[1], filesys),
                      outResolvedName(config, editor.current[1]))

\* :export
ExportJson ==
    /\ Reading
    /\ \/ NoCurrent("export", "")
       \/ /\ HasCurrent
          /\ Exported("export",
                      exportBankToJSON(config, workspace, editor.current[1], filesys),
                      outJsonName(config, editor.current[1]))

NextEditor ==
    \/ \E name \in OpenNames : Open(name)
    \/ \E name \in SwitchNames : Switch(name)
    \/ Insert("0002", "x00004.01.0001")
    \/ InsertR("02", "0005", "new")
    \/ Del("0001")
    \/ DelR("02", "0005")
    \/ \E path \in MergePaths : ReadMerge(path)
    \/ Write
    \/ Preload
    \/ ResolveOut
    \/ ExportJson

SpecEditor == InitEditor /\ [][NextEditor]_vars

(***************************************************************************)
(* A session that may end with :q, begun at the prompt or just after       *)
(* `:open x00001`.                                                         *)
(***************************************************************************)
\* what is typed at the unsaved-changes prompt: :q again, a command of one
\* word, or nothing more (end of input)
QuitLines == {":q", ":w", ""}

\* the Editor as constructed, and the Editor after `:open x00001`
SessionStarts(cfg, disk) ==
    {[ws |-> EmptyWorkspace, current |-> <<>>],
     [ws |-> openCtx(cfg, EmptyWorkspace, "x00001", disk).ws, current |-> <<LL(1)>>]}

InitSession ==
    /\ config = DefaultConfig
    /\ filesys = EditorFiles(config, "x00004 (bad)\n\t0001\tgood\n")
    /\ \E st \in SessionStarts(config, filesys) :
          /\ workspace = st.ws
          /\ editor = [NoEditor EXCEPT !.current = st.current]
    /\ kernel = NoKernel
    /\ last = NoCall
    /\ num = NoNum
    /\ fmt = NoFmt

\* :q with nothing unsaved ends the loop; with the dirty flag set the prompt
\* is shown and a second line l2 is read: :q or the end of input ends the
\* loop, any other line is taken for a tokenized command, which a command
\* of one word is not ("Unknown command"). A tokenized command typed there
\* is carried out as the same command read by the loop is.
Quit(l2) ==
    /\ Reading
    /\ editor' = [EditorAfter(editor.current, editor.dirty)
                     EXCEPT !.ended = ~editor.dirty \/ l2 \in {":q", ""}]
    /\ last' = Cmd("q", IF editor.dirty THEN l2 ELSE "", TRUE) @@
                   [prompted |-> editor.dirty]
    /\ UNCHANGED <<config, workspace, filesys, kernel, num, fmt>>

NextSession ==
    \/ NextEditor
    \/ \E l2 \in QuitLines : Quit(l2)

SpecSession == InitSession /\ [][NextSession]_vars

\* a call of run has just returned or thrown
Ran == last.op = "run"

\* the manifest run found for the name it was given (run leaves the list of
\* manifests alone)
FoundPlugin == kernel.plugins[find(kernel.plugins, last.name)]

\* the call was for a found plugin and an existing cell, and the entry file
\* the manifest names for this platform was not on disk
EntryMissing ==
    /\ Ran
    /\ find(kernel.plugins, last.name) # 0
    /\ getValue(config, last.pre, last.disk, last.bank, last.reg, last.addr).found
    /\ entryOf(FoundPlugin) # ""
    /\ ~exists(last.disk, entryPathOf(FoundPlugin))

\* the five files of the output directory of the call
RunFiles ==
    {PathJoin(absolute(outdirOf(config, last.bank, last.reg, last.addr, last.name)), f) :
        f \in {"code.txt", "input.json", "output.json", "run.log", "run.err"}}

\* C10: when run is called for a found plugin and an existing cell and the
\* entry file named by the manifest does not exist, run returns false with
\* an entry-not-found report, starts no child process and writes none of
\* code.txt, input.json, output.json, run.log, run.err.
C10_EntryNotFound ==
    EntryMissing =>
        /\ ~last.ret.thrown
        /\ ~last.ret.ok
        /\ last.ret.report = "Entry not found: " \o entryPathOf(FoundPlugin)
        /\ kernel.procs = last.procs
        /\ \A f \in RunFiles : f \notin DOMAIN filesys

\* the call started the plugin process
Started == Ran /\ kernel.procs > last.procs

\* C11: in any sequence of run calls, a run during which the plugin process
\* exits without writing output.json returns false, and its report contains
\* the exit code of the process of that run.
C11_NoOutputFails ==
    (Started /\ ~last.child.wrote) =>
        /\ ~last.ret.thrown
        /\ ~last.ret.ok
        /\ Occurs(to_string(LL(last.child.ec)), last.ret.report)

\* no manifest of the current plugin list has the name the call was given
PluginMissing == Ran /\ find(kernel.plugins, last.name) = 0

\* the cell the call names is in no bank of the Workspace, neither as the
\* call found it nor as the call left it
CellMissing ==
    /\ Ran
    /\ ~findCell(last.pre, last.bank, last.reg, last.addr).found
    /\ ~findCell(workspace, last.bank, last.reg, last.addr).found

\* the call created no directory and no file and started no process
NothingDone == filesys = last.disk /\ kernel.procs = last.procs

\* C12: run looks the plugin up before the cell: with no manifest of the
\* given name it returns false with a plugin-not-found report whether or not
\* the cell exists, and with a found plugin and a nonexistent cell it returns
\* false with a no-such-cell report; in both cases nothing is created on disk
\* and no child process is started.
C12_PluginThenCell ==
    /\ PluginMissing =>
          /\ ~last.ret.thrown
          /\ ~last.ret.ok
          /\ last.ret.report = "Plugin not found: " \o last.name
          /\ NothingDone
    /\ (Ran /\ ~PluginMissing /\ CellMissing) =>
          /\ ~last.ret.thrown
          /\ ~last.ret.ok
          /\ last.ret.report = "No value at reg " \o to_string(last.reg)
                                  \o " addr " \o to_string(last.addr)
          /\ NothingDone

\* a call that names neither a known plugin nor an existing cell, after a
\* call that started a process
C12_Witness == PluginMissing /\ CellMissing /\ kernel.procs > 0

\* the last command was :open with a name openCtx parsed as a bank id
OpenedId == last.op = "open" /\ parseIntBase(tokenOf(config, stemOf(last.arg)), config.base).ok

\* openCtx was called for a bank whose canonical file did not exist, and the
\* save of the new empty bank failed: its file is still not there
SaveFailed ==
    /\ OpenedId
    /\ ~exists(last.disk, contextFileName(config, last.id))
    /\ ~exists(filesys, contextFileName(config, last.id))

\* the last command put a value at register 1 of the current bank, a bank
\* that has no file
InsertedUnsaved ==
    /\ last.op = "ins"
    /\ last.ok
    /\ ~exists(filesys, contextFileName(config, last.cur[1]))

\* C13: when openCtx is called for a bank id whose canonical file does not
\* exist and saving the new empty bank fails, openCtx returns true and the
\* Workspace holds under that id an empty bank titled with the given stem;
\* a value inserted afterwards into such a bank is found there by getValue.
C13_OpenKeepsUnsaved ==
    /\ SaveFailed =>
          /\ last.ok
          /\ last.id \in DOMAIN workspace.banks
          /\ workspace.banks[last.id] = FreshBank(last.id, stemOf(last.arg))
          /\ \A b \in DOMAIN last.pre.banks \ {last.id} :
                workspace.banks[b] = last.pre.banks[b]
    /\ InsertedUnsaved =>
          /\ getValue(config, workspace, filesys, last.cur[1], LL(1),
                      parseIntBase(last.arg[1], config.base).out).found
          /\ getValue(config, workspace, filesys, last.cur[1], LL(1),
                      parseIntBase(last.arg[1], config.base).out).out = last.arg[2]

\* :open x00003 has just run: bank 3 has no file and none could be written
C13_Witness ==
    /\ SaveFailed
    /\ last.id = LL(3)
    /\ last.id \notin DOMAIN last.pre.banks
    /\ exists(filesys, contextFileName(config, last.id) \o ".tmp")

\* the file at path can be opened and parseBankText rejects its text
BadFile(disk, path) ==
    /\ canOpen(disk, path)
    /\ ~parseBankText(readAll(disk, path), config, EmptyBank).ok

\* the bank ids the commands of a session can name
SessionIds == {LL(n) : n \in 0..9}

\* the banks that were not loaded before the last command and whose
\* canonical file parseBankText rejects
BadBanks ==
    {b \in SessionIds \ DOMAIN last.pre.banks :
        BadFile(last.disk, contextFileName(config, b))}

\* the last command was :open or :switch for a bank that was not loaded and
\* whose file does not parse
OpenedBad ==
    /\ last.op \in {"open", "switch"}
    /\ parseIntBase(tokenOf(config, stemOf(last.arg)), config.base).ok
    /\ parseIntBase(tokenOf(config, stemOf(last.arg)), config.base).out \in BadBanks

\* the last command was :r, with a current context, for a file that does
\* not parse
MergedBad == last.op = "r" /\ last.cur # <<>> /\ BadFile(last.disk, last.arg)

\* the last command loaded banks on demand
LoadedOnDemand == last.op \in {"resolve", "export", "preload"}

\* C14: a bank-file load that fails with a parse error leaves the Workspace
\* as it was and the current context unchanged: after an :open, a :switch or
\* an :r of such a file the Workspace is the one before the command, and a
\* command that loads banks on demand adds no bank whose file does not parse
\* and changes no bank that was loaded.
C14_FailedLoadKeeps ==
    /\ (OpenedBad \/ MergedBad) =>
          /\ ~last.ok
          /\ workspace = last.pre
          /\ editor.current = last.cur
    /\ LoadedOnDemand =>
          /\ \A b \in BadBanks : b \notin DOMAIN workspace.banks
          /\ \A b \in DOMAIN last.pre.banks :
                b \in DOMAIN workspace.banks /\ workspace.banks[b] = last.pre.banks[b]
          /\ editor.current = last.cur

\* :resolve has just run on a bank whose value names a bank that was loaded
\* from its file and a bank whose file does not parse
C14_Witness ==
    /\ last.op = "resolve"
    /\ last.ok
    /\ BadBanks # {}
    /\ DOMAIN workspace.banks # DOMAIN last.pre.banks
    /\ \E b \in BadBanks :
          Occurs(toBaseN(b, config.base, config.widthBank),
                 last.pre.banks[last.cur[1]].regs[LL(1)][LL(1)])

\* the whole input of the last resolve call, read as one reference token
WholeToken == ReadToken(last.input, config, last.bank)

\* the input of the last resolve call was one well-formed reference token
\* to a bank that was not in the Workspace
NamesUnloaded ==
    /\ Resolved
    /\ WholeToken.ref
    /\ WholeToken.bank \notin DOMAIN last.pre.banks

\* the canonical file of the bank exists and parses
Loadable(bank) ==
    loadContextFile(config, contextFileName(config, bank), EmptyBank, filesys).ok

\* C15: when a reference names a bank that is not in the Workspace, the
\* resolver tries to load it from files/<prefix><paddedBankId>.txt: if the
\* file exists and parses, the reference is expanded to the resolved value
\* of the cell and the bank is in the Workspace afterwards; if the file is
\* missing or does not parse, the token is replaced by [Missing <token>] and
\* no bank is added under that id.
C15_LoadOnDemand ==
    NamesUnloaded =>
        IF Loadable(WholeToken.bank)
        THEN /\ WholeToken.bank \in DOMAIN workspace.banks
             /\ (/\ Target(WholeToken, workspace).found
                 /\ Clean(Target(WholeToken, workspace).out, WholeToken.bank,
                          config, workspace, MaxChain))
                => /\ ~last.ret.thrown
                   /\ last.ret.s = Ideal(Target(WholeToken, workspace).out,
                                         WholeToken.bank, config, workspace)
        ELSE /\ ~last.ret.thrown
             /\ last.ret.s = "[Missing " \o last.input \o "]"
             /\ WholeToken.bank \notin DOMAIN workspace.banks

\* :resolve has just written the export of the current bank
Exporting == last.op = "resolve" /\ last.cur # <<>> /\ last.ok

\* the bank :resolve exported, as it was when the command was given
ExportedBank == withBank(last.pre, last.cur[1]).banks[last.cur[1]]

\* the text :resolve wrote
ExportText == filesys[absolute(outResolvedName(config, last.cur[1]))].text

\* the bank with every value replaced by its resolved text
ResolvedBank(b) ==
    [b EXCEPT !.regs =
        [r \in DOMAIN b.regs |->
            [a \in DOMAIN b.regs[r] |->
                resolve(b.regs[r][a], b.id, {}, config, last.pre, last.disk).s]]]

\* the (register, address) keys of a bank
KeysOf(b) == UNION {{<<r, a>> : a \in DOMAIN b.regs[r]} : r \in DOMAIN b.regs}

\* C16: for every Bank, resolveBankToText has the header, the register
\* marker lines and the address lines, in the same order, that writeBankText
\* produces for the Bank, with each value replaced by its resolved text, and
\* parsing the export yields the (register, address) keys of the Bank.
C16_ExportShape ==
    Exporting =>
        /\ ExportText = writeBankText(ResolvedBank(ExportedBank), config)
        /\ parseBankText(ExportText, config, EmptyBank).ok
        /\ KeysOf(parseBankText(ExportText, config, EmptyBank).bank)
               = KeysOf(ExportedBank)

\* what the blocks before the two-part block make of the input of the last
\* resolve call: its out is the string the two-part block scans
SeenByTwo ==
    runPasses(<<"same", "pref3">>,
              [out |-> fileLoop(last.input, 1, "", filesys), ws |-> last.pre,
               visited |-> last.visited, thrown |-> FALSE],
              last.bank, config, filesys)

RECURSIVE TwoStarts(_, _)
\* where the matches of the two-part block's loop begin in s, from on
TwoStarts(s, from) ==
    IF ~searchTwo(s, from).found THEN {}
    ELSE {searchTwo(s, from).pos} \cup TwoStarts(s, searchTwo(s, from).end + 1)

\* no match of the two-part block in s begins at the prefix character of a
\* three-part token <prefix><b>.<r>.<a>
NoFragmentIn(s) ==
    \A p \in 1..Len(s) :
        pref3At(s, p, config.prefix).found => p \notin TwoStarts(s, 1)

\* C17: the two-part prefixed pass never matches a proper leading fragment
\* of a three-part token: whenever the string that pass sees contains
\* <prefix><b>.<r>.<a>, no substring beginning at that prefix character is
\* treated as a two-part reference.
C17_NoFragment ==
    (Resolved /\ ~SeenByTwo.thrown) => NoFragmentIn(SeenByTwo.out)

RECURSIVE IncludedTexts(_, _)
\* the contents of the files that the @file tokens of s, from on, include
IncludedTexts(s, from) ==
    IF ~searchFile(s, from).found THEN {}
    ELSE (IF canOpen(filesys, "files/" \o trim(searchFile(s, from).g[1]))
          THEN {readAll(filesys, "files/" \o trim(searchFile(s, from).g[1]))}
          ELSE {})
         \cup IncludedTexts(s, searchFile(s, from).end + 1)

\* the reference tokens and the @file tokens of a text
TokensOf(text) ==
    {Pieces(text)[i] : i \in {j \in WordAt(Pieces(text)) :
                                ReadToken(Pieces(text)[j], config, last.bank).shape # "none"}}
        \cup {SubSeq(text, fileAt(text, p).pos, fileAt(text, p).end) :
                 p \in {q \in 1..Len(text) : fileAt(text, q).found}}

\* C18: text inserted by @file(<name>) is not reference-resolved: every
\* cell-reference token and every @file(...) token of the included file's
\* content appears verbatim in the result of resolve.
C18_IncludedVerbatim ==
    (Resolved /\ ~last.ret.thrown) =>
        \A c \in IncludedTexts(last.input, 1) :
            \A tok \in TokensOf(c) : Occurs(tok, last.ret.s)

\* the input of the last resolve call is the value of a cell of the bank it
\* was resolved in
FromCell ==
    /\ Resolved
    /\ last.bank \in DOMAIN last.pre.banks
    /\ last.input \in {Cells(last.pre.banks[last.bank])[k] :
                          k \in DOMAIN Cells(last.pre.banks[last.bank])}

RECURSIVE Closes(_, _, _, _)
\* the text is one reference token, and the path of single tokens that
\* starts there ends within hops steps: at a cell already expanded (seen),
\* at a missing cell, or at a value that is literal text
Closes(text, cur, seen, hops) ==
    LET t == ReadToken(text, config, cur)
    IN  /\ t.ref
        /\ \/ <<t.bank, t.reg, t.addr>> \in seen
           \/ ~Target(t, workspace).found
           \/ /\ hops > 0
              /\ \/ Literal(Target(t, workspace).out)
                 \/ Closes(Target(t, workspace).out, t.bank,
                           seen \cup {<<t.bank, t.reg, t.addr>>}, hops - 1)

RECURSIVE ByCell(_, _, _)
\* what such a path resolves to when cycles are detected by target cell:
\* the reference to a cell already expanded on the path becomes the marker
ByCell(text, cur, seen) ==
    LET t == ReadToken(text, config, cur)
    IN  IF ~t.ref THEN text
        ELSE IF <<t.bank, t.reg, t.addr>> \in seen
        THEN "[Circular Ref: " \o text \o "]"
        ELSE IF ~Target(t, workspace).found THEN "[Missing " \o text \o "]"
        ELSE ByCell(Target(t, workspace).out, t.bank,
                    seen \cup {<<t.bank, t.reg, t.addr>>})

\* C19: cycle detection is by target cell, not by spelling: along a
\* recursion path of a top-level resolution started from a cell's value, no
\* cell's raw value is expanded more than once, whatever syntax or padding
\* names the cell at each step; the second reference on the path to a cell
\* already expanded is replaced by [Circular Ref: <token>].
C19_CycleByCell ==
    (FromCell /\ Closes(last.input, last.bank, {}, MaxChain)) =>
        /\ ~last.ret.thrown
        /\ last.ret.s = ByCell(last.input, last.bank, {})

\* the passes of resolve that run before, and after, the pass of a syntax
EarlierPasses(shape) ==
    {Passes[i] : i \in {j \in 1..Len(Passes) : \E k \in j + 1..Len(Passes) : Passes[k] = shape}}
LaterPasses(shape) ==
    {Passes[i] : i \in {j \in 1..Len(Passes) : \E k \in 1..j - 1 : Passes[k] = shape}}

\* the input of the last resolve call as the pass of its syntax reads it
TopToken == nextToken(WholeToken.shape, last.input, 1, last.bank, config)

\* the lookup that pass makes for the token
Looked ==
    IF TopToken.twoPart
    THEN getValueTwoPart(config, last.pre, filesys, TopToken.bank, TopToken.addr)
    ELSE getValue(config, last.pre, filesys, TopToken.bank, TopToken.reg, TopToken.addr)

\* the input of the last resolve call was one well-formed reference token,
\* matched by no earlier pass, to an existing cell (the visited set is empty)
LiveToken ==
    /\ Resolved
    /\ WholeToken.ref
    /\ \A p \in EarlierPasses(WholeToken.shape) :
          ~nextToken(p, last.input, 1, last.bank, config).found
    /\ TopToken.found
    /\ TopToken.what = "expand"
    /\ TopToken.pos = 1
    /\ TopToken.end = Len(last.input)
    /\ Looked.found

\* the target's raw value resolved in the target's bank, the visited set
\* extended by the target's key
Substituted ==
    resolve(Looked.out, TopToken.bank, {TopToken.key}, config, Looked.ws, filesys)

RECURSIVE Untouched(_, _, _)
\* the pass finds in s, from position from on, only tokens it puts out as
\* they are
Untouched(pass, s, from) ==
    LET t == nextToken(pass, s, from, last.bank, config)
    IN  \/ ~t.found
        \/ /\ t.what = "keep"
           /\ Untouched(pass, s, t.end + 1)

Read == fmt.pc = "read"

\* body line i holds a closing brace, is blank, is a register-marker line
\* (not indented), is an address line (indented)
Closing(i) == Contains(fmt.body[i], "}")
Blank(i) == trim(fmt.body[i]) = ""
Marker(i) == ~Blank(i) /\ CharAt(fmt.body[i], 1) \notin {"\t", " "}
Address(i) == ~Blank(i) /\ CharAt(fmt.body[i], 1) \in {"\t", " "}

\* the address token of an address line: the text between the indentation
\* and the first tab (the first space when the line holds no tab after it)
AddrTok(i) ==
    LET t   == stripIndent(fmt.body[i])
        sep == IF FindChar(t, "\t", 1) # 0 THEN FindChar(t, "\t", 1)
               ELSE FindChar(t, " ", 1)
    IN  IF sep = 0 THEN trim(t) ELSE trim(SubSeq(t, 1, sep - 1))

\* the value of an address line: what follows that separator
ValOf(i) ==
    LET t   == stripIndent(fmt.body[i])
        sep == IF FindChar(t, "\t", 1) # 0 THEN FindChar(t, "\t", 1)
               ELSE FindChar(t, " ", 1)
    IN  IF sep = 0 THEN "" ELSE Suffix(t, sep + 1)

\* body line i is a marker or address line whose number does not parse
Invalid(i) ==
    \/ Marker(i) /\ ~parseIntBase(trim(fmt.body[i]), fmt.cfg.base).ok
    \/ Address(i) /\ ~parseIntBase(AddrTok(i), fmt.cfg.base).ok

\* the body lines that count: those before the first line that holds a
\* closing brace or does not parse
Counted ==
    {i \in DOMAIN fmt.body : \A j \in 1..i : ~Closing(j) /\ ~Invalid(j)}

\* the register an address line belongs to: that of the most recent marker
\* line before it, register 1 when there is none
RegAt(i) ==
    LET ms == {j \in 1..i - 1 : Marker(j)}
    IN  IF ms = {} THEN LL(1)
        ELSE parseIntBase(trim(fmt.body[CHOOSE j \in ms : \A o \in ms : o <= j]),
                          fmt.cfg.base).out

KeyAt(i) == <<RegAt(i), parseIntBase(AddrTok(i), fmt.cfg.base).out>>

\* the address lines that count, and the last of them for a key
Stored == {i \in Counted : Address(i)}
LastFor(k) == CHOOSE i \in Stored : KeyAt(i) = k /\ \A o \in Stored : KeyAt(o) = k => o <= i

\* C21: parseBankText stores every address line under the register id of
\* the most recent preceding register-marker line, or under register 1 if no
\* marker precedes it; a later line with the same (register, address)
\* overwrites the earlier value, and lines after the first body line
\* containing a closing brace contribute nothing.
C21_LinesStored ==
    Read =>
        /\ fmt.res.ok = (\A i \in DOMAIN fmt.body : (\A j \in 1..i - 1 : ~Closing(j)) =>
                            (Closing(i) \/ ~Invalid(i)))
        /\ DOMAIN Cells(fmt.res.bank) = {KeyAt(i) : i \in Stored}
        /\ \A k \in DOMAIN Cells(fmt.res.bank) :
              Cells(fmt.res.bank)[k] = ValOf(LastFor(k))

\* a text was read in which an address line before any marker, a marker, an
\* address line that overwrites an earlier one of its register, and a line
\* after the closing brace all occur
C21_Witness ==
    /\ Read
    /\ fmt.res.ok
    /\ \E i \in Stored : RegAt(i) = LL(2)
    /\ \E i, j \in Stored : i < j /\ KeyAt(i) = KeyAt(j) /\ ValOf(i) # ValOf(j)
                            /\ AddrTok(i) # AddrTok(j)

\* a text was read whose first address line stands before any marker and
\* whose closing brace is followed by an address line that would parse
C21_WitnessBrace ==
    /\ Read
    /\ fmt.res.ok
    /\ \E i \in Stored : RegAt(i) = LL(1) /\ \A j \in 1..i : ~Marker(j)
    /\ \E i \in DOMAIN fmt.body : Closing(i) /\ i < Len(fmt.body)
                                  /\ Address(i + 1) /\ ~Invalid(i + 1)

\* the call parseIntBase of the last token has returned
Tried == num.pc = "tried"

\* every character of the token is a digit of the base
AllDigits(s, base) ==
    \A i \in 1..Len(s) : digitValue(CharAt(s, i)) \in 0..(base - 1)

\* v * m + d on six limbs, which the tokens tried never fill
WideMulAdd(v, m, d) ==
    LET t1 == v[1] * m + d
        t2 == v[2] * m + (t1 \div LimbBase)
        t3 == v[3] * m + (t2 \div LimbBase)
        t4 == v[4] * m + (t3 \div LimbBase)
        t5 == v[5] * m + (t4 \div LimbBase)
        t6 == v[6] * m + (t5 \div LimbBase)
    IN  <<t1 % LimbBase, t2 % LimbBase, t3 % LimbBase, t4 % LimbBase,
          t5 % LimbBase, t6 % LimbBase>>

RECURSIVE ValueOf(_, _, _, _)
\* the number the digits of s from character i on denote after v
ValueOf(s, i, base, v) ==
    IF i > Len(s) THEN v
    ELSE LET w == WideMulAdd(v, base, digitValue(CharAt(s, i)))
         IN  IF w[6] < LimbBase THEN ValueOf(s, i + 1, base, w) ELSE w

\* the mathematical value of a token of digits
Value(s, base) == ValueOf(s, 1, base, <<0, 0, 0, 0, 0, 0>>)

\* the number fits a signed 64-bit integer
Fits(w) == w[5] = 0 /\ w[6] = 0 /\ w[4] < LimbBase \div 2

\* C22: parseIntBase succeeds only when the token is non-empty, every
\* character is a valid digit of the base, and the token's mathematical
\* value fits in a signed 64-bit integer; on success the returned value is
\* non-negative and equals that mathematical value (the accumulator
\* v = v*base + d wrapping modulo 2^64).
C22_ParseExact ==
    (Tried /\ num.how = "wrapping" /\ num.res.ok) =>
        /\ num.txt # ""
        /\ AllDigits(num.txt, num.base)
        /\ Fits(Value(num.txt, num.base))
        /\ ~LLIsNeg(num.res.out)
        /\ num.res.out = SubSeq(Value(num.txt, num.base), 1, 4)

\* an Editor command has just been carried out
Commanded == last.op \in {"open", "switch", "ins", "insr", "del", "delr", "r", "w",
                          "preload", "resolve", "export"}

\* the commands that insert, delete or merge
Edits == {"ins", "insr", "del", "delr", "r"}

\* C23: once a bank is in the Workspace it is never removed, and its
\* (register, address) -> value mapping changes only through insert, delete
\* or merge operations applied to that bank: open, switch, preload, save,
\* resolve and export commands leave the cells of every already-loaded bank
\* unchanged.
C23_BanksKept ==
    Commanded =>
        \A k \in DOMAIN last.pre.banks :
            /\ k \in DOMAIN workspace.banks
            /\ Cells(workspace.banks[k]) # Cells(last.pre.banks[k]) =>
                  (last.op \in Edits /\ last.cur = <<k>>)

\* C24: Workspace key consistency: after any sequence of open, switch,
\* preload, on-demand load and edit operations, every entry (k, b) of
\* ws.banks satisfies b.id = k.
C24_KeyIsId ==
    \A k \in DOMAIN workspace.banks : workspace.banks[k].id = k

\* the cells of bank k as its file on disk holds them (none when there is no
\* file that can be read and parsed)
OnDisk(k) ==
    LET f  == absolute(contextFileName(config, k))
        pr == parseBankText(readAll(filesys, f), config, EmptyBank)
    IN  IF canOpen(filesys, f) /\ pr.ok THEN Cells(pr.bank) ELSE Cells(EmptyBank)

\* bank k was opened or loaded (a Bank that operator[] made has id 0)
WasLoaded(k) == workspace.banks[k].id # LL(0)

\* a loaded bank k carries an insert, delete or merge made since it was
\* loaded or saved: its cells are not those of its file (a bank's file
\* changes by saving the bank only)
Unsaved(k) == WasLoaded(k) /\ Cells(workspace.banks[k]) # OnDisk(k)

\* C25: unsaved-changes tracking: after any sequence of REPL commands, if
\* the dirty flag is false then no loaded bank carries an insert, delete or
\* merge made since that bank was last loaded or successfully saved; hence
\* :q ends the session without the unsaved-changes prompt only when there
\* are no unsaved edits in any bank.
C25_CleanMeansSaved ==
    /\ ~editor.dirty => \A k \in DOMAIN workspace.banks : ~Unsaved(k)
    /\ (last.op = "q" /\ ~last.prompted /\ editor.ended) =>
           \A k \in DOMAIN workspace.banks : ~Unsaved(k)

\* the text holds no digit character and no "@file("
Wordy(text) ==
    /\ \A i \in 1..Len(text) : ~isdigit(CharAt(text, i))
    /\ ~Occurs("@file(", text)

\* C26: literal text is preserved: for every configured base and prefix, a
\* value that contains no digit character and no "@file(" substring is
\* returned unchanged by resolve (ordinary words and dotted names such as
\* server.log are not treated as references).
C26_WordsKept ==
    (Resolved /\ Wordy(last.input)) =>
        /\ ~last.ret.thrown
        /\ last.ret.s = last.input
====
